---- MODULE Spec2Model ----
(***************************************************************************)
(* nixutil.open_beneath: the userspace path walker of nixutil/beneath.py   *)
(* over a small filesystem with directories, regular files and symlinks.   *)
(*                                                                         *)
(* Strings are sequences of one-character strings, so _split_path works on *)
(* the characters of the path.  Open flags are sets of flag names.  File   *)
(* descriptors are small naturals handed out lowest-free-first, as the     *)
(* kernel does; a file's identity (st_dev, st_ino) is its node name.       *)
(***************************************************************************)
EXTENDS Integers, Sequences, FiniteSets, TLC

VARIABLES args, inject, dirents, up, renames, w

vars == <<args, inject, dirents, up, renames, w>>

(***************************************************************************)
(* Bounds                                                                  *)
(***************************************************************************)
\* most components in an enumerated input path
MaxParts == 2
\* size of the process's descriptor table (RLIMIT_NOFILE)
MaxFd == 7
\* deepest verifier iteration at which an OS error is injected
MaxCheckFault == 1
\* most concurrent renames during one call
MaxRenames == 1
\* longest path given to the splitter alone
MaxPathLen == 5
\* longest symlink target given to the splitter alone
MaxTargetLen == 3
\* most symlinks found in one walk of the queue alone
MaxExpansions == 2

(***************************************************************************)
(* Strings                                                                 *)
(***************************************************************************)
slash == <<"/">>
dot == <<".">>
dotdot == dot \o dot

EndsWith(str, suffix) ==
    /\ Len(str) >= Len(suffix)
    /\ SubSeq(str, Len(str) - Len(suffix) + 1, Len(str)) = suffix

StartsWith(str, prefix) ==
    /\ Len(str) >= Len(prefix)
    /\ SubSeq(str, 1, Len(prefix)) = prefix

\* str.split("/"): the substrings between separators, empty ones included
RECURSIVE StrSplit(_, _)
StrSplit(str, cur) ==
    IF str = <<>> THEN <<cur>>
    ELSE IF <<Head(str)>> = slash THEN <<cur>> \o StrSplit(Tail(str), <<>>)
    ELSE StrSplit(Tail(str), Append(cur, Head(str)))

\* the list as it is, empty strings kept
FilterNonEmpty_Keep(strs) == strs

\* list(filter(bool, ...))
RECURSIVE FilterNonEmpty(_)
FilterNonEmpty(strs) ==
    IF strs = <<>> THEN <<>>
    ELSE IF Head(strs) = <<>> THEN FilterNonEmpty(Tail(strs))
    ELSE <<Head(strs)>> \o FilterNonEmpty(Tail(strs))

(***************************************************************************)
(* Open flags                                                              *)
(***************************************************************************)
O_DIRECTORY == "O_DIRECTORY"
O_PATH == "O_PATH"
O_NOFOLLOW == "O_NOFOLLOW"
O_NOCTTY == "O_NOCTTY"

\* Linux: O_DIRECTORY | O_PATH
DIR_OPEN_FLAGS == {O_DIRECTORY, O_PATH}

Item(part, flags) == [part |-> part, flags |-> flags]

\* the work items of a non-empty path, a trailing separator not looked at
_split_path_NoTrail(path, flags0) ==
    LET split_parts == FilterNonEmpty(StrSplit(path, <<>>))
        n == Len(split_parts)
        first == IF StartsWith(path, slash)
                 THEN <<Item(slash, IF n > 0 THEN DIR_OPEN_FLAGS ELSE flags0)>>
                 ELSE <<>>
        middle == [k \in 1..(IF n > 0 THEN n - 1 ELSE 0) |-> Item(split_parts[k], DIR_OPEN_FLAGS)]
        last == IF n > 0 THEN <<Item(split_parts[n], flags0)>> ELSE <<>>
    IN first \o middle \o last

\* the work items of a non-empty path (the empty path raises ENOENT at the callers)
_split_path(path, flags0) ==
    LET flags == IF EndsWith(path, slash) THEN flags0 \cup {O_DIRECTORY} ELSE flags0
        split_parts == FilterNonEmpty(StrSplit(path, <<>>))
        n == Len(split_parts)
        first == IF StartsWith(path, slash)
                 THEN <<Item(slash, IF n > 0 THEN DIR_OPEN_FLAGS ELSE flags)>>
                 ELSE <<>>
        middle == [k \in 1..(IF n > 0 THEN n - 1 ELSE 0) |-> Item(split_parts[k], DIR_OPEN_FLAGS)]
        last == IF n > 0 THEN <<Item(split_parts[n], flags)>> ELSE <<>>
    IN first \o middle \o last

(***************************************************************************)
(* The filesystem                                                          *)
(***************************************************************************)
NoNode == "none"

\* G is the real "/", T the directory the walk is confined to
Nodes == {"G", "T", "A", "E", "B", "OB", "Lf", "Ld", "Lr", "Lg", "Lh", "Li", "P", "S"}

Kind ==
    [G |-> "dir", T |-> "dir", A |-> "dir", E |-> "dir",
     B |-> "reg", OB |-> "reg",
     Lf |-> "lnk", Ld |-> "lnk", Lr |-> "lnk", Lg |-> "lnk", Lh |-> "lnk", Li |-> "lnk",
     P |-> "fifo", S |-> "sock"]

Dirs == {n \in Nodes : Kind[n] = "dir"}

LinkTarget ==
    [Lf |-> <<"a", "/", "e">>,
     Ld |-> <<"/", "b">>,
     Lr |-> <<"r">>,
     Lg |-> <<".", ".", "/", "b">>,
     Lh |-> <<".", ".", "/", ".", ".", "/", ".", ".", "/", "b">>,
     Li |-> <<"/", "a">>]

\* the names that occur in input paths and symlink targets
NameChars == {"a", "b", "e", "f", "d", "r", "g"}

\* all directory entry names; "t" is T's name in the real root
Names == {<<c>> : c \in NameChars \cup {"t"}}

Entries(pairs) ==
    [n \in Names |-> IF \E p \in pairs : <<p[1]>> = n
                     THEN (CHOOSE p \in pairs : <<p[1]>> = n)[2]
                     ELSE NoNode]

\* T: a/ b f -> a/e  d -> /b  r -> r;  T/a: e/  g -> ../b;
\* T/a/e: g -> ../../../b  d -> /a;  outside T: /b, and T itself is /t
InitDirents ==
    [d \in Dirs |->
        CASE d = "G" -> Entries({<<"t", "T">>, <<"b", "OB">>})
          [] d = "T" -> Entries({<<"a", "A">>, <<"b", "B">>, <<"f", "Lf">>,
                                  <<"d", "Ld">>, <<"r", "Lr">>})
          [] d = "A" -> Entries({<<"e", "E">>, <<"g", "Lg">>})
          [] d = "E" -> Entries({<<"g", "Lh">>, <<"d", "Li">>})]

InitUp == [d \in Dirs |-> CASE d = "G" -> "G" [] d = "T" -> "G" [] d = "A" -> "T" [] d = "E" -> "A"]

(***************************************************************************)
(* The process: descriptor table and system calls                          *)
(*                                                                         *)
(* A walker state s is a record (see InitWalker).  A system call returns   *)
(* [s |-> the state after it, fd / val |-> its result, errno |-> "" or the *)
(* error].  fault is the injected failure the call is run under.           *)
(***************************************************************************)
Fds == 0..MaxFd
NoFd == -1
AT_FDCWD == -100
\* the process's working directory
Cwd == "T"
Closed == [node |-> NoNode, flags |-> {}]
NoFault == <<"none", 0>>

Log(s, event) == [s EXCEPT !.log = Append(@, event)]

IsOpen(s, fd) == fd \in Fds /\ s.fdt[fd] # Closed

Elems(seq) == {seq[k] : k \in 1..Len(seq)}

\* os.close(fd); closing a descriptor that is not open is EBADF
os_close(s, fd) ==
    IF IsOpen(s, fd)
    THEN Log([s EXCEPT !.fdt[fd] = Closed], <<"close", fd>>)
    ELSE Log([s EXCEPT !.ebadf = TRUE], <<"close", fd>>)

RECURSIVE CloseAll(_, _)
CloseAll(s, fds) ==
    IF fds = <<>> THEN s ELSE CloseAll(os_close(s, Head(fds)), Tail(fds))

\* what `name` resolves to in the file d, symlinks not followed
Lookup(d, name) ==
    IF Kind[d] # "dir" THEN NoNode
    ELSE IF name = dot THEN d
    ELSE IF name = dotdot THEN up[d]
    ELSE IF name \in Names THEN dirents[d][name]
    ELSE NoNode

\* the file a lookup base refers to
BaseNode(s, base) == IF base = AT_FDCWD THEN Cwd ELSE s.fdt[base].node

\* errno of openat(base, name, flags) on Linux, "" on success
OpenErrno(s, base, name, flags) ==
    LET d == BaseNode(s, base)
        n == Lookup(d, name)
    IN  IF \A f \in Fds : s.fdt[f] # Closed THEN "EMFILE"
        ELSE IF Kind[d] # "dir" THEN "ENOTDIR"
        ELSE IF n = NoNode THEN "ENOENT"
        ELSE IF Kind[n] = "lnk" /\ O_NOFOLLOW \in flags
             THEN (IF O_DIRECTORY \in flags THEN "ENOTDIR"
                   ELSE IF O_PATH \in flags THEN ""
                   ELSE "ELOOP")
        ELSE IF Kind[n] = "lnk" THEN "EOPNOTSUPP"
        ELSE IF Kind[n] # "dir" /\ O_DIRECTORY \in flags THEN "ENOTDIR"
        ELSE ""

\* the lowest descriptor that is not open
LowestFree(s) ==
    IF \A f \in Fds : s.fdt[f] # Closed THEN NoFd
    ELSE CHOOSE f \in Fds : s.fdt[f] = Closed /\ \A g \in Fds : g < f => s.fdt[g] # Closed

\* an open of the file node that fails with e or gives descriptor fd; the log
\* keeps the call, the file it hit and what it returned
OpenResult(s, base, name, flags, node, e, fd) ==
    IF e # ""
    THEN [s |-> Log(s, <<"open", base, name, flags, node, NoFd, e>>), fd |-> NoFd, errno |-> e]
    ELSE [s |-> Log([s EXCEPT !.fdt[fd] = [node |-> node, flags |-> flags]],
                    <<"open", base, name, flags, node, fd, "">>),
          fd |-> fd, errno |-> ""]

\* os.open(name, flags, dir_fd=base)
os_open(s, base, name, flags, fault) ==
    OpenResult(s, base, name, flags, Lookup(BaseNode(s, base), name),
               IF fault = <<"open", 0>> THEN "EIO" ELSE OpenErrno(s, base, name, flags),
               LowestFree(s))

\* os.readlink(name, dir_fd=base)
os_readlink(s, base, name, fault) ==
    LET s1 == Log(s, <<"readlink", base, name>>)
        n == Lookup(BaseNode(s, base), name)
    IN  IF fault = <<"readlink", 0>> THEN [s |-> s1, val |-> <<>>, errno |-> "EIO"]
        ELSE IF n = NoNode THEN [s |-> s1, val |-> <<>>, errno |-> "ENOENT"]
        ELSE IF Kind[n] # "lnk" THEN [s |-> s1, val |-> <<>>, errno |-> "EINVAL"]
        ELSE [s |-> s1, val |-> LinkTarget[n], errno |-> ""]

\* os.fstat(fd) / os.stat(fd): the identity of the open file
os_fstat(s, fd) == s.fdt[fd].node

\* st_ino: the inode numbers; E is the root directory of another filesystem
\* mounted there, and has the number that A has in its own
st_ino ==
    [G |-> 2, T |-> 11, A |-> 12, E |-> 12, B |-> 13, OB |-> 14,
     Lf |-> 15, Ld |-> 16, Lr |-> 17, Lg |-> 18, Lh |-> 19, Li |-> 20,
     P |-> 21, S |-> 22, none |-> 0]

\* st_dev: the device of the filesystem that holds the file
st_dev == [n \in Nodes \cup {NoNode} |-> IF n = "E" THEN 2 ELSE 1]

\* the inode numbers compared and the devices not
samestat_InodeOnly(st1, st2) == st_ino[st1] = st_ino[st2]

\* os.path.samestat
samestat(st1, st2) == st_ino[st1] = st_ino[st2] /\ st_dev[st1] = st_dev[st2]

(***************************************************************************)
(* _check_beneath: the escape verifier                                     *)
(*                                                                         *)
(* A step that may raise returns [s |-> state, errno |-> "" or the error]. *)
(***************************************************************************)
Res(s, e) == [s |-> s, errno |-> e]

\* `if cur_fd != orig_fd: os.close(cur_fd)`, in the loop and in the `finally`
CheckFinally(s, cur_fd, orig_fd) ==
    IF cur_fd # orig_fd THEN os_close(s, cur_fd) ELSE s

RECURSIVE CheckLoop(_, _, _, _, _, _)

\* after `new_fd = os.open("..", ...)` gave o, a failed open taken for an escape
CheckOpened_AsEscape(o, cur_fd, orig_fd, cur_stat, depth, fault) ==
    IF o.errno # "" THEN Res(CheckFinally(o.s, cur_fd, orig_fd), "EXDEV")
    ELSE CheckLoop(CheckFinally(o.s, cur_fd, orig_fd), o.fd, orig_fd, cur_stat, depth + 1, fault)

\* after `new_fd = os.open("..", ...)` gave o
CheckOpened(o, cur_fd, orig_fd, cur_stat, depth, fault) ==
    IF o.errno # "" THEN Res(CheckFinally(o.s, cur_fd, orig_fd), o.errno)
    ELSE CheckLoop(CheckFinally(o.s, cur_fd, orig_fd), o.fd, orig_fd, cur_stat, depth + 1, fault)

\* one run of the `while True` loop and the ones after it; depth counts the
\* iterations already made
CheckLoop(s, cur_fd, orig_fd, prev_stat, depth, fault) ==
    IF fault = <<"check_fstat", depth>>
    THEN Res(CheckFinally(Log(s, <<"fstat", cur_fd>>), cur_fd, orig_fd), "EIO")
    ELSE IF samestat(os_fstat(s, cur_fd), s.dir_fd_stat)
    THEN Res(CheckFinally(Log(s, <<"fstat", cur_fd>>), cur_fd, orig_fd), "")
    ELSE IF prev_stat # NoNode /\ samestat(os_fstat(s, cur_fd), prev_stat)
    THEN Res(CheckFinally(Log(s, <<"fstat", cur_fd>>), cur_fd, orig_fd), "EXDEV")
    ELSE CheckOpened(os_open(Log(s, <<"fstat", cur_fd>>), cur_fd, dotdot, DIR_OPEN_FLAGS,
                             IF fault = <<"check_open", depth>> THEN <<"open", 0>> ELSE NoFault),
                     cur_fd, orig_fd, os_fstat(s, cur_fd), depth, fault)

\* the log records where a verifier run starts and how it ends
CheckDone(r) == Res(Log(r.s, <<"checked", r.errno>>), r.errno)

_check_beneath(s, cur_fd, fault) ==
    CheckDone(CheckLoop(Log(s, <<"check", cur_fd>>), cur_fd, cur_fd, NoNode, 0, fault))

(***************************************************************************)
(* _open_beneath: leaving the walk                                         *)
(***************************************************************************)
\* open_beneath's `finally`: the working-directory descriptor it opened itself
WrapperFinally(s) ==
    IF s.dir_fd # args.dir_fd THEN os_close(s, s.dir_fd) ELSE s

\* `except BaseException: if cur_fd != dir_fd: os.close(cur_fd)`
CloseCursor(s) ==
    IF s.cur_fd # s.dir_fd THEN os_close(s, s.cur_fd) ELSE s

\* the outer `finally: for fd in parent_fds: os.close(fd)`
CloseParents(s) == CloseAll(s, s.parent_fds)

\* open_beneath returns fd or raises e
Exit(s, e, fd) == [s EXCEPT !.pc = "done", !.errno = e, !.ret = fd]

\* an exception e leaves _open_beneath's `try`
Raise(s, e) == Exit(WrapperFinally(CloseParents(CloseCursor(s))), e, NoFd)

\* the inner `finally` left out: the cursor that was replaced stays open
IterFinally_NoClose(s, old_fd) == s

\* the `finally` of one loop iteration
IterFinally(s, old_fd) ==
    IF old_fd \notin {s.cur_fd, s.dir_fd} /\ old_fd \notin Elems(s.parent_fds)
    THEN os_close(s, old_fd)
    ELSE s

RaiseIf(s, e) == IF e = "" THEN s ELSE Raise(s, e)

\* the end of one loop iteration whose branch gave r; an open that may have hit
\* a symlink stays inside the `try` until the readlink is done
EndIter(r, old_fd) ==
    IF r.s.pc = "symlink" THEN r.s ELSE RaiseIf(IterFinally(r.s, old_fd), r.errno)

\* while parent_fds: os.close(parent_fds.pop())
RECURSIVE PopCloseAll(_)
PopCloseAll(s) ==
    IF s.parent_fds = <<>> THEN s
    ELSE PopCloseAll(os_close([s EXCEPT !.parent_fds = SubSeq(@, 1, Len(@) - 1)],
                              s.parent_fds[Len(s.parent_fds)]))

(***************************************************************************)
(* _open_beneath: the branches of one loop iteration                       *)
(***************************************************************************)
\* `cur_fd = os.open(...)` gave o
Opened(o) == Res(IF o.errno = "" THEN [o.s EXCEPT !.cur_fd = o.fd] ELSE o.s, o.errno)

\* assert not saw_parent_elem
RootAssert(s) == Res(s, IF s.saw_parent_elem THEN "AssertionError" ELSE "")

\* part == slash
\* the root marker with the parent stack left as it is
RootMarkerBranch_KeepStack(s) == RootAssert([s EXCEPT !.cur_fd = s.dir_fd])

RootMarkerBranch(s) == RootAssert(PopCloseAll([s EXCEPT !.cur_fd = s.dir_fd]))

\* cur_fd = os.open(".", flags, dir_fd=parent_fds[-1]) gave o; os.close(parent_fds.pop())
ReopenedParent(o, top) ==
    IF o.errno # "" THEN Res(o.s, o.errno)
    ELSE Res(os_close([o.s EXCEPT !.cur_fd = o.fd,
                                  !.parent_fds = SubSeq(@, 1, Len(@) - 1)], top), "")

\* cur_fd = os.open("..", flags, dir_fd=cur_fd) gave o, and the step is not
\* remembered
OpenedParent_Forgotten(o) ==
    IF o.errno # "" THEN Res(o.s, o.errno)
    ELSE Res([o.s EXCEPT !.cur_fd = o.fd], "")

\* cur_fd = os.open("..", flags, dir_fd=cur_fd) gave o; saw_parent_elem = True
OpenedParent(o) ==
    IF o.errno # "" THEN Res(o.s, o.errno)
    ELSE Res([o.s EXCEPT !.cur_fd = o.fd, !.saw_parent_elem = TRUE], "")

\* part == dotdot, remember_parents, with an empty stack taken as "open the
\* cursor's own parent"
DotDotRemembered_OpenParent(s, flags, fault) ==
    IF s.parent_fds # <<>>
    THEN IF flags = DIR_OPEN_FLAGS
         THEN Res([s EXCEPT !.cur_fd = s.parent_fds[Len(s.parent_fds)],
                            !.parent_fds = SubSeq(@, 1, Len(@) - 1)], "")
         ELSE ReopenedParent(os_open(s, s.parent_fds[Len(s.parent_fds)], dot, flags, fault),
                             s.parent_fds[Len(s.parent_fds)])
    ELSE Opened(os_open(s, s.cur_fd, dotdot, flags, fault))

\* part == dotdot, remember_parents
DotDotRemembered(s, flags, fault) ==
    IF s.parent_fds # <<>>
    THEN IF flags = DIR_OPEN_FLAGS
         THEN Res([s EXCEPT !.cur_fd = s.parent_fds[Len(s.parent_fds)],
                            !.parent_fds = SubSeq(@, 1, Len(@) - 1)], "")
         ELSE ReopenedParent(os_open(s, s.parent_fds[Len(s.parent_fds)], dot, flags, fault),
                             s.parent_fds[Len(s.parent_fds)])
    ELSE Res([s EXCEPT !.cur_fd = s.dir_fd], "")

\* part == dotdot, not remember_parents, the root known by its descriptor only
DotDotStateless_ByFd(s, flags, fault) ==
    IF s.cur_fd = s.dir_fd
    THEN Res([s EXCEPT !.saw_parent_elem = FALSE], "")
    ELSE IF fault = <<"fstat", 0>>
    THEN Res(Log(s, <<"fstat", s.cur_fd>>), "EIO")
    ELSE OpenedParent(os_open(Log(s, <<"fstat", s.cur_fd>>), s.cur_fd, dotdot, flags, fault))

\* part == dotdot, not remember_parents, saw_parent_elem left as it is when the
\* cursor turns out to be the root
DotDotStateless_KeepFlag(s, flags, fault) ==
    IF s.cur_fd = s.dir_fd
    THEN Res([s EXCEPT !.saw_parent_elem = FALSE], "")
    ELSE IF fault = <<"fstat", 0>>
    THEN Res(Log(s, <<"fstat", s.cur_fd>>), "EIO")
    ELSE IF samestat(os_fstat(s, s.cur_fd), s.dir_fd_stat)
    THEN Res([Log(s, <<"fstat", s.cur_fd>>) EXCEPT !.cur_fd = s.dir_fd], "")
    ELSE OpenedParent(os_open(Log(s, <<"fstat", s.cur_fd>>), s.cur_fd, dotdot, flags, fault))

\* part == dotdot, not remember_parents
DotDotStateless(s, flags, fault) ==
    IF s.cur_fd = s.dir_fd
    THEN Res([s EXCEPT !.saw_parent_elem = FALSE], "")
    ELSE IF fault = <<"fstat", 0>>
    THEN Res(Log(s, <<"fstat", s.cur_fd>>), "EIO")
    ELSE IF samestat(os_fstat(s, s.cur_fd), s.dir_fd_stat)
    THEN Res([Log(s, <<"fstat", s.cur_fd>>) EXCEPT !.cur_fd = s.dir_fd,
                                                   !.saw_parent_elem = FALSE], "")
    ELSE OpenedParent(os_open(Log(s, <<"fstat", s.cur_fd>>), s.cur_fd, dotdot, flags, fault))

\* part == dotdot
DotDotBranch(s, flags, fault) ==
    IF s.remember_parents THEN DotDotRemembered(s, flags, fault)
    ELSE DotDotStateless(s, flags, fault)

\* part == dot
DotBranch(s, flags, fault) ==
    IF s.cur_fd # s.dir_fd /\ flags # DIR_OPEN_FLAGS
    THEN Opened(os_open(s, s.cur_fd, dot, flags, fault))
    ELSE Res(s, "")

\* errno values after which the component may be a symlink (no EFTYPE on Linux)
SymlinkErrnos == {"ELOOP", "ENOTDIR", "EMLINK"}

NoPend == [part |-> <<>>, flags |-> {}, ex |-> "", old_fd |-> NoFd]

\* `except OSError as ex` is entered with an errno that a symlink may have caused
Pending(s, part, flags, ex, old_fd) ==
    [s EXCEPT !.pc = "symlink",
              !.pend = [part |-> part, flags |-> flags, ex |-> ex, old_fd |-> old_fd]]

\* no parent is remembered
PushParent_Never(s, old_fd) == s

\* parent_fds.append(cur_fd): the directory just entered is remembered
PushParent_Cursor(s, old_fd) ==
    IF s.remember_parents /\ old_fd # s.dir_fd
    THEN [s EXCEPT !.parent_fds = Append(@, s.cur_fd)]
    ELSE s

\* parent_fds.append(old_fd) whatever old_fd is
PushParent_Any(s, old_fd) ==
    IF s.remember_parents
    THEN [s EXCEPT !.parent_fds = Append(@, old_fd)]
    ELSE s

\* the `else` of the open: if remember_parents and old_fd != dir_fd: parent_fds.append(old_fd)
PushParent(s, old_fd) ==
    IF s.remember_parents /\ old_fd # s.dir_fd
    THEN [s EXCEPT !.parent_fds = Append(@, old_fd)]
    ELSE s

\* Linux: the open gave an O_PATH descriptor that may be open to a symlink
LinuxPathCheck(s, old_fd, part, flags, fault) ==
    IF fault = <<"stat", 0>> THEN Res(s, "EIO")
    ELSE IF Kind[os_fstat(s, s.cur_fd)] = "lnk"
    THEN Res(Pending([os_close(s, s.cur_fd) EXCEPT !.cur_fd = old_fd],
                     part, flags, "ELOOP", old_fd), "")
    ELSE Res(PushParent(s, old_fd), "")

\* cur_fd = os.open(part, flags | O_NOCTTY | O_NOFOLLOW, dir_fd=cur_fd) gave o
NameOpened(o, old_fd, part, flags, fault) ==
    IF o.errno \in SymlinkErrnos THEN Res(Pending(o.s, part, flags, o.errno, old_fd), "")
    ELSE IF o.errno # "" THEN Res(o.s, o.errno)
    ELSE IF flags \cap {O_PATH, O_NOFOLLOW, O_DIRECTORY} = {O_PATH}
    THEN LinuxPathCheck(Log([o.s EXCEPT !.cur_fd = o.fd], <<"stat", o.fd>>),
                        old_fd, part, flags, fault)
    ELSE Res(PushParent([o.s EXCEPT !.cur_fd = o.fd], old_fd), "")

NameOpen(s, part, flags, fault) ==
    NameOpened(os_open(s, s.cur_fd, part, flags \cup {O_NOCTTY, O_NOFOLLOW}, fault),
               s.cur_fd, part, flags, fault)

\* _check_beneath gave c, and the name is opened whatever it reported
NameChecked_Ignored(c, part, flags, fault) ==
    NameOpen([c.s EXCEPT !.saw_parent_elem = FALSE], part, flags, fault)

\* _check_beneath gave c, saw_parent_elem left set
NameChecked_KeepFlag(c, part, flags, fault) ==
    IF c.errno # "" THEN c ELSE NameOpen(c.s, part, flags, fault)

\* _check_beneath gave c; saw_parent_elem = False
NameChecked(c, part, flags, fault) ==
    IF c.errno # "" THEN c
    ELSE NameOpen([c.s EXCEPT !.saw_parent_elem = FALSE], part, flags, fault)

\* an ordinary name, up to the end of the `try: cur_fd = os.open(...)` block
NameBranch(s, part, flags, fault) ==
    IF s.saw_parent_elem /\ s.remember_parents THEN Res(s, "AssertionError")
    ELSE IF s.saw_parent_elem
    THEN NameChecked(_check_beneath(s, s.cur_fd, fault), part, flags, fault)
    ELSE NameOpen(s, part, flags, fault)

max_symlinks == IF args.no_symlinks THEN 0 ELSE 40

\* audit_func("symlink", cur_fd, target)
AuditSymlink(s, target) ==
    IF args.audit_func THEN Log(s, <<"audit", "symlink", s.cur_fd, target>>) ELSE s

\* found_symlinks += 1, the ELOOP check and parts.extendleft(...) of the
\* target's items as they come, which puts them on the queue in reverse
FoundSymlink_Unreversed(s, target, flags, fault) ==
    IF args.audit_func /\ fault = <<"audit", 0>> THEN Res(s, "AuditError")
    ELSE IF O_NOFOLLOW \in flags \/ s.found_symlinks + 1 > max_symlinks
    THEN Res([s EXCEPT !.found_symlinks = @ + 1], "ELOOP")
    ELSE IF target = <<>>
    THEN Res([s EXCEPT !.found_symlinks = @ + 1], "ENOENT")
    ELSE Res([s EXCEPT !.found_symlinks = @ + 1,
                       !.parts = [k \in 1..Len(_split_path(target, flags)) |->
                                    _split_path(target, flags)[Len(_split_path(target, flags)) + 1 - k]]
                                 \o @], "")

\* found_symlinks += 1 and parts.extendleft(...), with the budget reached one
\* symlink early
FoundSymlink_OneEarly(s, target, flags, fault) ==
    IF args.audit_func /\ fault = <<"audit", 0>> THEN Res(s, "AuditError")
    ELSE IF O_NOFOLLOW \in flags \/ s.found_symlinks + 1 >= max_symlinks
    THEN Res([s EXCEPT !.found_symlinks = @ + 1], "ELOOP")
    ELSE IF target = <<>>
    THEN Res([s EXCEPT !.found_symlinks = @ + 1], "ENOENT")
    ELSE Res([s EXCEPT !.found_symlinks = @ + 1,
                       !.parts = _split_path(target, flags) \o @], "")

\* found_symlinks += 1, the budget check and parts.extendleft(...), with the
\* item's O_NOFOLLOW not looked at
FoundSymlink_Follow(s, target, flags, fault) ==
    IF args.audit_func /\ fault = <<"audit", 0>> THEN Res(s, "AuditError")
    ELSE IF s.found_symlinks + 1 > max_symlinks
    THEN Res([s EXCEPT !.found_symlinks = @ + 1], "ELOOP")
    ELSE IF target = <<>>
    THEN Res([s EXCEPT !.found_symlinks = @ + 1], "ENOENT")
    ELSE Res([s EXCEPT !.found_symlinks = @ + 1,
                       !.parts = _split_path(target, flags) \o @], "")

\* found_symlinks += 1 and parts.extendleft(...), with no bound on the symlinks
FoundSymlink_NoBudget(s, target, flags, fault) ==
    IF args.audit_func /\ fault = <<"audit", 0>> THEN Res(s, "AuditError")
    ELSE IF O_NOFOLLOW \in flags
    THEN Res([s EXCEPT !.found_symlinks = @ + 1], "ELOOP")
    ELSE IF target = <<>>
    THEN Res([s EXCEPT !.found_symlinks = @ + 1], "ENOENT")
    ELSE Res([s EXCEPT !.found_symlinks = @ + 1,
                       !.parts = _split_path(target, flags) \o @], "")

\* found_symlinks += 1 and the target split with the flags of the call
FoundSymlink_CallFlags(s, target, flags, fault) ==
    IF args.audit_func /\ fault = <<"audit", 0>> THEN Res(s, "AuditError")
    ELSE IF O_NOFOLLOW \in flags \/ s.found_symlinks + 1 > max_symlinks
    THEN Res([s EXCEPT !.found_symlinks = @ + 1], "ELOOP")
    ELSE IF target = <<>>
    THEN Res([s EXCEPT !.found_symlinks = @ + 1], "ENOENT")
    ELSE Res([s EXCEPT !.found_symlinks = @ + 1,
                       !.parts = _split_path(target, s.orig_flags) \o @], "")

\* found_symlinks += 1 and ELOOP one symlink later than max_symlinks allows
FoundSymlink_OneMore(s, target, flags, fault) ==
    IF args.audit_func /\ fault = <<"audit", 0>> THEN Res(s, "AuditError")
    ELSE IF O_NOFOLLOW \in flags \/ s.found_symlinks > max_symlinks
    THEN Res([s EXCEPT !.found_symlinks = @ + 1], "ELOOP")
    ELSE IF target = <<>>
    THEN Res([s EXCEPT !.found_symlinks = @ + 1], "ENOENT")
    ELSE Res([s EXCEPT !.found_symlinks = @ + 1,
                       !.parts = _split_path(target, flags) \o @], "")

\* found_symlinks += 1, the ELOOP check and parts.extendleft(...)
FoundSymlink(s, target, flags, fault) ==
    IF args.audit_func /\ fault = <<"audit", 0>> THEN Res(s, "AuditError")
    ELSE IF O_NOFOLLOW \in flags \/ s.found_symlinks + 1 > max_symlinks
    THEN Res([s EXCEPT !.found_symlinks = @ + 1], "ELOOP")
    ELSE IF target = <<>>
    THEN Res([s EXCEPT !.found_symlinks = @ + 1], "ENOENT")
    ELSE Res([s EXCEPT !.found_symlinks = @ + 1,
                       !.parts = _split_path(target, flags) \o @], "")

\* target = os.readlink(part, dir_fd=cur_fd) gave r, and the callback is left
\* out for an item that carries O_NOFOLLOW
ReadLink_CheckFirst(r, pend, fault) ==
    IF r.errno = "EINVAL"
    THEN Res(r.s, IF pend.ex = "ENOTDIR" THEN "ENOTDIR" ELSE "EAGAIN")
    ELSE IF r.errno # "" THEN Res(r.s, r.errno)
    ELSE IF O_NOFOLLOW \in pend.flags THEN FoundSymlink(r.s, r.val, pend.flags, fault)
    ELSE FoundSymlink(AuditSymlink(r.s, r.val), r.val, pend.flags, fault)

\* target = os.readlink(part, dir_fd=cur_fd) gave r, and EINVAL always
\* re-raises the error of the open
ReadLink_Reraise(r, pend, fault) ==
    IF r.errno = "EINVAL" THEN Res(r.s, pend.ex)
    ELSE IF r.errno # "" THEN Res(r.s, r.errno)
    ELSE FoundSymlink(AuditSymlink(r.s, r.val), r.val, pend.flags, fault)

\* target = os.readlink(part, dir_fd=cur_fd) gave r
ReadLink(r, pend, fault) ==
    IF r.errno = "EINVAL"
    THEN Res(r.s, IF pend.ex = "ENOTDIR" THEN "ENOTDIR" ELSE "EAGAIN")
    ELSE IF r.errno # "" THEN Res(r.s, r.errno)
    ELSE FoundSymlink(AuditSymlink(r.s, r.val), r.val, pend.flags, fault)

\* the `except OSError as ex` block of an ordinary name
SymlinkBranch(s, fault) ==
    EndIter(ReadLink(os_readlink([s EXCEPT !.pc = "loop", !.pend = NoPend],
                                 s.cur_fd, s.pend.part, fault),
                     s.pend, fault),
            s.pend.old_fd)

\* the branch for one work item
Branch(s, item, fault) ==
    IF item.part = slash THEN RootMarkerBranch(s)
    ELSE IF item.part = dotdot THEN DotDotBranch(s, item.flags, fault)
    ELSE IF item.part = dot THEN DotBranch(s, item.flags, fault)
    ELSE NameBranch(s, item.part, item.flags, fault)

\* audit_func("before", cur_fd, part)
AuditBefore(s, part) ==
    IF args.audit_func THEN Log(s, <<"audit", "before", s.cur_fd, part>>) ELSE s

\* one loop iteration on the item taken by `parts.popleft()`, s being the state after it
Dequeued(s, item, fault) ==
    IF ~(item.flags = DIR_OPEN_FLAGS \/ s.parts = <<>>) THEN Raise(s, "AssertionError")
    ELSE IF args.audit_func /\ fault = <<"audit", 0>>
    THEN Raise(AuditBefore(s, item.part), "AuditError")
    ELSE EndIter(Branch(AuditBefore(s, item.part), item, fault), s.cur_fd)

\* one loop iteration
Iteration(s, fault) == Dequeued([s EXCEPT !.parts = Tail(@)], Head(s.parts), fault)

(***************************************************************************)
(* open_beneath / _open_beneath: entry and exit                            *)
(***************************************************************************)
\* `dotdot not in parts`: parts holds (component, flags) tuples, and a str
\* never compares equal to a tuple
StrEqualsTuple(str, item) == FALSE

InParts(str, parts) == \E k \in 1..Len(parts) : StrEqualsTuple(str, parts[k])

\* what leaves open_beneath before the walk's `try`, the wrapper's `finally` left out
Fail_NoFinally(s, e) == Exit(s, e, NoFd)

\* what leaves open_beneath before the walk's `try` is entered
Fail(s, e) == Exit(WrapperFinally(s), e, NoFd)

\* _open_beneath up to the `while parts` loop, the path split before the root
\* is looked at
StartWalk_SplitFirst(s, parts, remember_parents, fault) ==
    IF fault = <<"fstat", 0>> THEN Fail(s, "EIO")
    ELSE IF args.path = <<>> THEN Fail(s, "ENOENT")
    ELSE IF Kind[os_fstat(s, s.dir_fd)] # "dir" THEN Fail(s, "ENOTDIR")
    ELSE [s EXCEPT !.pc = "loop",
                   !.dir_fd_stat = os_fstat(s, s.dir_fd),
                   !.orig_flags = args.flags \cup {O_NOCTTY},
                   !.parts = parts,
                   !.remember_parents =
                       IF args.no_symlinks /\ ~InParts(dotdot, parts)
                       THEN FALSE ELSE remember_parents,
                   !.found_symlinks = 0,
                   !.parent_fds = <<>>,
                   !.cur_fd = s.dir_fd,
                   !.saw_parent_elem = FALSE]

\* _open_beneath up to the `while parts` loop
StartWalk(s, parts, remember_parents, fault) ==
    IF fault = <<"fstat", 0>> THEN Fail(s, "EIO")
    ELSE IF Kind[os_fstat(s, s.dir_fd)] # "dir" THEN Fail(s, "ENOTDIR")
    ELSE IF args.path = <<>> THEN Fail(s, "ENOENT")
    ELSE [s EXCEPT !.pc = "loop",
                   !.dir_fd_stat = os_fstat(s, s.dir_fd),
                   !.orig_flags = args.flags \cup {O_NOCTTY},
                   !.parts = parts,
                   !.remember_parents =
                       IF args.no_symlinks /\ ~InParts(dotdot, parts)
                       THEN FALSE ELSE remember_parents,
                   !.found_symlinks = 0,
                   !.parent_fds = <<>>,
                   !.cur_fd = s.dir_fd,
                   !.saw_parent_elem = FALSE]

\* new_dir_fd = os.open(".", DIR_OPEN_FLAGS) if dir_fd is None else dir_fd, as o
Entered(o, remember_parents, fault) ==
    IF o.errno # "" THEN Exit(o.s, o.errno, NoFd)
    ELSE StartWalk(Log([o.s EXCEPT !.dir_fd = o.fd], <<"fstat", o.fd>>),
                   _split_path(args.path, args.flags \cup {O_NOCTTY}),
                   remember_parents, fault)

\* open_beneath up to the `while parts` loop, with the remember_parents given
EnterWalk(s, remember_parents, fault) ==
    Entered(IF args.dir_fd = NoFd
            THEN os_open(s, AT_FDCWD, dot, DIR_OPEN_FLAGS, fault)
            ELSE [s |-> s, fd |-> args.dir_fd, errno |-> ""],
            remember_parents, fault)

\* os.open(".", flags=orig_flags | O_NOCTTY, dir_fd=dir_fd) gave o
ReturnOpened(o) == Exit(WrapperFinally(o.s), o.errno, o.fd)

\* the cursor returned as it is, the root descriptor too
ReturnFd_Cursor(s, fault) == Exit(WrapperFinally(s), "", s.cur_fd)

\* the `return` of _open_beneath
ReturnFd(s, fault) ==
    IF s.cur_fd = s.dir_fd
    THEN ReturnOpened(os_open(s, s.dir_fd, dot, s.orig_flags \cup {O_NOCTTY}, fault))
    ELSE Exit(WrapperFinally(s), "", s.cur_fd)

\* the last _check_beneath gave c
LastChecked(c, fault) ==
    IF c.errno # "" THEN Raise(c.s, c.errno) ELSE ReturnFd(CloseParents(c.s), fault)

\* after the loop, saw_parent_elem not looked at
LeaveWalk_NoCheck(s, fault) == ReturnFd(CloseParents(s), fault)

\* after the loop: the last verifier run, the outer `finally` and the return
LeaveWalk(s, fault) ==
    IF s.saw_parent_elem
       /\ (s.remember_parents \/ s.parent_fds # <<>> \/ s.cur_fd = s.dir_fd)
    THEN Raise(s, "AssertionError")
    ELSE IF s.saw_parent_elem THEN LastChecked(_check_beneath(s, s.cur_fd, fault), fault)
    ELSE ReturnFd(CloseParents(s), fault)

(***************************************************************************)
(* Inputs and initial state                                                *)
(***************************************************************************)
RECURSIVE Join(_)
Join(comps) ==
    IF comps = <<>> THEN <<>>
    ELSE IF Len(comps) = 1 THEN comps[1]
    ELSE comps[1] \o slash \o Join(Tail(comps))

\* every path of at most MaxParts work items (a leading separator is one),
\* with and without a trailing separator, and LongPaths
Paths ==
    LET
        \* the names of input paths that are enumerated ("r", the symlink to itself,
        \* only occurs in LongPaths)
        Comps == {<<c>> : c \in NameChars \ {"r"}} \cup {dot, dotdot}

        \* the paths of the test suite that are longer than the enumerated ones or
        \* walk the symlink to itself, in this filesystem's names, the paths of
        \* the rename race, a path that ends in `.` after a `..` below the root,
        \* and one that meets a symlink with an absolute target after a `..`
        LongPaths ==
            {<<"a", "/", "e", "/", ".", ".">>,
             <<"a", "/", "e", "/", ".", ".", "/", ".">>,
             <<"a", "/", ".", ".", "/", "d">>,
             <<"a", "/", "e", "/", ".", ".", "/", ".", ".">>,
             <<"a", "/", "e", "/", ".", ".", "/", ".", ".", "/", ".", ".">>,
             <<"a", "/", ".", ".", "/", ".", ".">>,
             <<"/", "a", "/", ".", ".", "/", ".", ".">>,
             <<"a", "/", "e", "/", ".", ".", "/", "e">>,
             <<"a", "/", "e", "/", "g">>,
             <<"a", "/", "e", "/", "d", "/", "e">>,
             <<"a", "/", ".", ".", "/", "r">>,
             <<"r">>,
             <<"r", "/", "a">>,
             <<"a", "/", "e", "/", ".", ".", "/", ".", ".", "/", "a">>,
             <<"a", "/", ".", ".", "/", ".", ".", "/", "b">>,
             <<"a", "/", "e", "/", ".", ".", "/", ".", ".", "/", "b">>}
    IN
        {Join(comps) \o trail :
            comps \in UNION {[1..k -> Comps] : k \in 0..MaxParts}, trail \in {<<>>, slash}}
        \cup {slash \o Join(comps) \o trail :
            comps \in UNION {[1..k -> Comps] : k \in 0..(MaxParts - 1)}, trail \in {<<>>, slash}}
        \cup LongPaths

\* the descriptor the caller passes as dir_fd, and the directory it is open to
CallerFd == 0
Root == "T"

\* a descriptor of the caller's that is open to a regular file
FileFd == 1

\* the process's root directory, os.stat("/")
RootDir == "G"

\* a descriptor of the caller's that is open to the process's root directory
RootFd == 2

\* the file a descriptor of the caller's is open to
CallerNode(fd) == IF fd = FileFd THEN "B" ELSE IF fd = RootFd THEN RootDir ELSE Root

ArgSets ==
    LET
        UserFlags == SUBSET {O_NOFOLLOW, O_PATH}
    IN
        [path : Paths, flags : UserFlags, dir_fd : {NoFd, CallerFd, FileFd},
         no_symlinks : BOOLEAN, remember_parents : BOOLEAN, audit_func : BOOLEAN]

InitWalker ==
    [pc |-> "call",
     fdt |-> [f \in Fds |->
                IF f = args.dir_fd THEN [node |-> CallerNode(f), flags |-> {}] ELSE Closed],
     log |-> <<>>,
     ebadf |-> FALSE,
     dir_fd |-> NoFd,
     dir_fd_stat |-> NoNode,
     orig_flags |-> {},
     parts |-> <<>>,
     remember_parents |-> FALSE,
     found_symlinks |-> 0,
     parent_fds |-> <<>>,
     cur_fd |-> NoFd,
     saw_parent_elem |-> FALSE,
     pend |-> NoPend,
     ret |-> NoFd,
     errno |-> ""]

InitCommon ==
    /\ args \in ArgSets
    /\ dirents = InitDirents
    /\ up = InitUp
    /\ renames = 0
    /\ w = InitWalker

\* a filesystem nobody else touches and system calls that fail only for
\* what the filesystem holds
Init == InitCommon /\ inject = FALSE

\* the calls of the rename race: O_RDONLY, a caller's dir_fd and an audit callback
InitRace ==
    /\ InitCommon /\ inject = FALSE
    /\ args.flags = {} /\ args.dir_fd = CallerFd /\ args.audit_func

\* any one system call or audit callback may fail
InitFault == InitCommon /\ inject = TRUE

(***************************************************************************)
(* Actions                                                                 *)
(***************************************************************************)
Faults ==
    IF inject
    THEN {NoFault} \cup ({"audit", "open", "stat", "fstat", "readlink"} \X {0})
                   \cup ({"check_fstat", "check_open"} \X (0..MaxCheckFault))
    ELSE {NoFault}

Env == <<args, inject, dirents, up, renames>>

OpenBeneath ==
    /\ w.pc = "call"
    /\ \E fault \in Faults : w' = EnterWalk(w, args.remember_parents, fault)
    /\ UNCHANGED Env

RootMarker ==
    /\ w.pc = "loop" /\ w.parts # <<>> /\ Head(w.parts).part = slash
    /\ \E fault \in Faults : w' = Iteration(w, fault)
    /\ UNCHANGED Env

ParentDir ==
    /\ w.pc = "loop" /\ w.parts # <<>> /\ Head(w.parts).part = dotdot
    /\ \E fault \in Faults : w' = Iteration(w, fault)
    /\ UNCHANGED Env

CurrentDir ==
    /\ w.pc = "loop" /\ w.parts # <<>> /\ Head(w.parts).part = dot
    /\ \E fault \in Faults : w' = Iteration(w, fault)
    /\ UNCHANGED Env

OrdinaryName ==
    /\ w.pc = "loop" /\ w.parts # <<>> /\ Head(w.parts).part \notin {slash, dotdot, dot}
    /\ \E fault \in Faults : w' = Iteration(w, fault)
    /\ UNCHANGED Env

Symlink ==
    /\ w.pc = "symlink"
    /\ \E fault \in Faults : w' = SymlinkBranch(w, fault)
    /\ UNCHANGED Env

Return ==
    /\ w.pc = "loop" /\ w.parts = <<>>
    /\ \E fault \in Faults : w' = LeaveWalk(w, fault)
    /\ UNCHANGED Env

\* whether directory p is d or lies below it
RECURSIVE Below(_, _)
Below(p, d) == p = d \/ (up[p] # p /\ Below(up[p], d))

Movable == {"A", "E"}

\* another process renames directory d into directory p while the walk runs
Rename ==
    /\ w.pc \in {"loop", "symlink"}
    /\ renames < MaxRenames
    /\ \E d \in Movable, p \in Dirs, n \in Names :
        /\ dirents[up[d]][n] = d
        /\ p # up[d] /\ ~Below(p, d) /\ dirents[p][n] = NoNode
        /\ dirents' = [dirents EXCEPT ![up[d]][n] = NoNode, ![p][n] = d]
        /\ up' = [up EXCEPT ![d] = p]
    /\ renames' = renames + 1
    /\ UNCHANGED <<args, inject, w>>

Next ==
    \/ OpenBeneath
    \/ RootMarker
    \/ ParentDir
    \/ CurrentDir
    \/ OrdinaryName
    \/ Symlink
    \/ Return

\* between the open of a name and the readlink, another process renames a
\* regular file over the name
Replace ==
    /\ w.pc = "symlink"
    /\ renames < MaxRenames
    /\ \E d \in Dirs, n \in Names :
        /\ dirents[d][n] \in Nodes /\ Kind[dirents[d][n]] = "reg"
        /\ Lookup(BaseNode(w, w.cur_fd), w.pend.part) \in Nodes
        /\ dirents' = [[dirents EXCEPT ![d][n] = NoNode]
                           EXCEPT ![BaseNode(w, w.cur_fd)][w.pend.part] = dirents[d][n]]
    /\ renames' = renames + 1
    /\ UNCHANGED <<args, inject, up, w>>

NextRace == Next \/ Rename

Spec == Init /\ [][Next]_vars

SpecFault == InitFault /\ [][Next]_vars

\* the paths of one character and the paths over the symlink to itself
InitLive ==
    /\ Init /\ args.dir_fd = CallerFd /\ ~args.audit_func
    /\ (Len(args.path) <= 1 \/ \E i \in 1..Len(args.path) : args.path[i] = "r")

\* no system call fails and the filesystem does not change; every step that
\* can be taken is taken
SpecLive == InitLive /\ [][Next]_vars /\ WF_vars(Next)

SpecRace == InitRace /\ [][NextRace]_vars

\* a call with no flags that may follow symlinks
InitReplace ==
    /\ InitFault
    /\ args.dir_fd = CallerFd /\ args.flags = {} /\ ~args.audit_func /\ ~args.no_symlinks

\* any one system call may fail, and a symlink may be replaced during the walk
SpecReplace == InitReplace /\ [][Next \/ Replace]_vars

(***************************************************************************)
(* The splitter alone: any path is split, items are taken from the queue,  *)
(* and the item taken is replaced by the items of any symlink target       *)
(***************************************************************************)
\* every string of 1 to n of the characters chars
Strings(chars, n) == UNION {[1..k -> chars] : k \in 1..n}

InitSplit ==
    LET
        SplitPaths == Strings({"/", "a", "b"}, MaxPathLen)
    IN
        /\ args \in [path : SplitPaths, flags : {{}, {O_PATH}}, dir_fd : {CallerFd},
                     no_symlinks : {FALSE}, remember_parents : {FALSE}, audit_func : {TRUE}]
        /\ inject = FALSE
        /\ dirents = InitDirents
        /\ up = InitUp
        /\ renames = 0
        /\ w = InitWalker

\* parts = collections.deque(_split_path(orig_path, ...))
SplitPath ==
    /\ w.pc = "call"
    /\ w' = EnterWalk(w, args.remember_parents, NoFault)
    /\ UNCHANGED Env

\* part, flags = parts.popleft() and the callback's "before"
PopLeft ==
    /\ w.pc = "loop" /\ w.parts # <<>> /\ w.found_symlinks = 0
    /\ w' = AuditBefore([w EXCEPT !.parts = Tail(@),
                                  !.pend = [part |-> Head(w.parts).part,
                                            flags |-> Head(w.parts).flags,
                                            ex |-> "ELOOP", old_fd |-> w.cur_fd]],
                        Head(w.parts).part)
    /\ UNCHANGED Env

\* the item taken is a symlink with target t: parts.extendleft(reversed(list(_split_path(t, ...))))
ExtendLeft ==
    /\ w.pc = "loop" /\ w.found_symlinks = 0
    /\ w.pend.part \notin {<<>>, slash}
    /\ \E t \in Strings({"/", "a"}, MaxTargetLen) :
        w' = FoundSymlink(AuditSymlink(w, t), t, w.pend.flags, NoFault).s
    /\ UNCHANGED Env

NextSplit ==
    \/ SplitPath
    \/ PopLeft
    \/ ExtendLeft

SpecSplit == InitSplit /\ [][NextSplit]_vars

(***************************************************************************)
(* The queue alone: items are taken from it one by one, the assertion on    *)
(* the item's flags included, and any name taken may turn out to be a       *)
(* symlink with any target, MaxExpansions times in one walk                 *)
(***************************************************************************)
InitQueue ==
    /\ args \in [path : Strings({"/", "a", "."}, MaxParts + 1), flags : {{}, {O_PATH}},
                 dir_fd : {CallerFd}, no_symlinks : {FALSE}, remember_parents : {FALSE},
                 audit_func : {FALSE}]
    /\ inject = FALSE
    /\ dirents = InitDirents
    /\ up = InitUp
    /\ renames = 0
    /\ w = InitWalker

\* part, flags = parts.popleft(); assert flags == DIR_OPEN_FLAGS or not parts
TakeItem ==
    /\ w.pc = "loop" /\ w.parts # <<>>
    /\ w' = IF ~(Head(w.parts).flags = DIR_OPEN_FLAGS \/ Tail(w.parts) = <<>>)
            THEN Raise([w EXCEPT !.parts = Tail(@)], "AssertionError")
            ELSE AuditBefore([w EXCEPT !.parts = Tail(@),
                                       !.pend = [part |-> Head(w.parts).part,
                                                 flags |-> Head(w.parts).flags,
                                                 ex |-> "ELOOP", old_fd |-> w.cur_fd]],
                             Head(w.parts).part)
    /\ UNCHANGED Env

\* the name taken is a symlink with target t: found_symlinks += 1 and
\* parts.extendleft(reversed(list(_split_path(t, ...))))
ExpandItem ==
    /\ w.pc = "loop" /\ w.found_symlinks < MaxExpansions
    /\ w.pend.part \notin {<<>>, slash, dot, dotdot}
    /\ \E t \in Strings({"/", "a"}, MaxTargetLen) :
        w' = IF FoundSymlink(AuditSymlink(w, t), t, w.pend.flags, NoFault).errno # ""
             THEN Raise(FoundSymlink(AuditSymlink(w, t), t, w.pend.flags, NoFault).s,
                        FoundSymlink(AuditSymlink(w, t), t, w.pend.flags, NoFault).errno)
             ELSE [FoundSymlink(AuditSymlink(w, t), t, w.pend.flags, NoFault).s
                      EXCEPT !.pend = NoPend]
    /\ UNCHANGED Env

SpecQueue == InitQueue /\ [][SplitPath \/ TakeItem \/ ExpandItem]_vars

(***************************************************************************)
(* The verifier alone: _check_beneath is called on a cursor open to any     *)
(* directory for any root directory, after other processes have renamed     *)
(* directories, and any one of its system calls may fail                    *)
(***************************************************************************)
InitCheck ==
    /\ args = [path |-> dotdot, flags |-> {}, dir_fd |-> CallerFd, no_symlinks |-> FALSE,
               remember_parents |-> FALSE, audit_func |-> FALSE]
    /\ inject = TRUE
    /\ dirents = InitDirents
    /\ up = InitUp
    /\ renames = 0
    /\ \E root \in Dirs, cursor \in Dirs :
          w = [InitWalker EXCEPT
                  !.pc = "loop",
                  !.fdt = [f \in Fds |->
                              IF f = CallerFd THEN [node |-> root, flags |-> {}]
                              ELSE IF f = CallerFd + 1
                              THEN [node |-> cursor, flags |-> DIR_OPEN_FLAGS]
                              ELSE Closed],
                  !.dir_fd = CallerFd,
                  !.dir_fd_stat = root,
                  !.cur_fd = CallerFd + 1,
                  !.saw_parent_elem = TRUE]

\* _check_beneath(cur_fd, dir_fd_stat, orig_path) returns or raises
CheckBeneath ==
    /\ w.pc = "loop"
    /\ \E fault \in Faults :
          w' = [_check_beneath(w, w.cur_fd, fault).s
                   EXCEPT !.pc = "done", !.errno = _check_beneath(w, w.cur_fd, fault).errno]
    /\ UNCHANGED Env

SpecCheck == InitCheck /\ [][Rename \/ CheckBeneath]_vars

(***************************************************************************)
(* nixutil.recover_fd_path (nixutil/recover_path.py)                       *)
(*                                                                         *)
(* args is [fd, plat]: the descriptor passed, and whether plat_util has    *)
(* try_recover_fd_path (the fallback test deletes it).  w is the frame of  *)
(* the call: the descriptor table, the log, sub_fd, sub_stat, built_path,  *)
(* and at the end the path returned or the errno raised.                   *)
(***************************************************************************)
\* the name a directory has in its parent, or NoNode if it was removed
NameOf(d) ==
    IF \E n \in Names : dirents[up[d]][n] = d
    THEN CHOOSE n \in Names : dirents[up[d]][n] = d
    ELSE NoNode

\* the file still has a name in a chain of directories from the real root
RECURSIVE Linked(_)
Linked(n) ==
    \/ n = RootDir
    \/ \E d \in Dirs, name \in Names : dirents[d][name] = n /\ Linked(d)

\* the text the kernel appends to the path of a file that has no name any more
DeletedSuffix == <<" ", "(", "d", "e", "l", "e", "t", "e", "d", ")">>

\* os.readlink("/proc/self/fd/N") for a descriptor open to file n: the path from
\* the process's root, with DeletedSuffix for a removed directory (shown under
\* the name the tree gave it), and pipe:[..] or socket:[..] for those
ProcLink(n) ==
    LET
        Under(p, name) == IF p = slash THEN slash \o name ELSE p \o slash \o name

        RECURSIVE KernelPath(_)
        KernelPath(f) ==
            IF f = RootDir THEN slash
            ELSE IF \E d \in Dirs, name \in Names : dirents[d][name] = f
            THEN LET d == CHOOSE d \in Dirs : \E name \in Names : dirents[d][name] = f
                 IN  Under(KernelPath(d), CHOOSE name \in Names : dirents[d][name] = f)
            ELSE Under(KernelPath(up[f]),
                       CHOOSE name \in Names : InitDirents[InitUp[f]][name] = f)
    IN
        IF Kind[n] = "fifo" THEN <<"p", "i", "p", "e", ":", "[", "1", "]">>
        ELSE IF Kind[n] = "sock" THEN <<"s", "o", "c", "k", "e", "t", ":", "[", "2", "]">>
        ELSE IF Linked(n) THEN KernelPath(n)
        ELSE KernelPath(n) \o DeletedSuffix

\* the suffix cut off and the rest returned
try_recover_fd_path_Strip(s, fd) ==
    IF ~IsOpen(s, fd) THEN <<>>
    ELSE IF ~StartsWith(ProcLink(s.fdt[fd].node), slash) THEN <<>>
    ELSE IF EndsWith(ProcLink(s.fdt[fd].node), DeletedSuffix)
    THEN SubSeq(ProcLink(s.fdt[fd].node), 1,
                Len(ProcLink(s.fdt[fd].node)) - Len(DeletedSuffix))
    ELSE ProcLink(s.fdt[fd].node)

\* plat_util.linux.try_recover_fd_path; <<>> stands for None
try_recover_fd_path(s, fd) ==
    IF ~IsOpen(s, fd) THEN <<>>
    ELSE IF StartsWith(ProcLink(s.fdt[fd].node), slash)
            /\ ~EndsWith(ProcLink(s.fdt[fd].node), DeletedSuffix)
    THEN ProcLink(s.fdt[fd].node)
    ELSE <<>>

\* os.path.join(a, b)
os_path_join(a, b) ==
    IF StartsWith(b, slash) THEN b
    ELSE IF a = <<>> \/ EndsWith(a, slash) THEN a \o b
    ELSE a \o slash \o b

\* recover_fd_path returns path or raises e
Recovered(s, e, path) == [s EXCEPT !.pc = "done", !.errno = e, !.ret = path]

\* the S_ISDIR test left out: the reverse walk is started on any open file
StartReverse_AnyFile(s, fd) ==
    IF ~IsOpen(s, fd) THEN Recovered(Log(s, <<"fstat", fd>>), "EBADF", <<>>)
    ELSE [Log(s, <<"fstat", fd>>) EXCEPT !.pc = "walk", !.orig_fd = fd, !.sub_fd = fd,
                                        !.sub_stat = os_fstat(s, fd), !.built_path = <<>>]

\* lines 36-46: orig_stat = os.fstat(orig_fd), directories only
StartReverse(s, fd) ==
    IF ~IsOpen(s, fd) THEN Recovered(Log(s, <<"fstat", fd>>), "EBADF", <<>>)
    ELSE IF Kind[os_fstat(s, fd)] # "dir"
    THEN Recovered(Log(s, <<"fstat", fd>>), "ENOTSUP", <<>>)
    ELSE [Log(s, <<"fstat", fd>>) EXCEPT !.pc = "walk", !.orig_fd = fd, !.sub_fd = fd,
                                        !.sub_stat = os_fstat(s, fd), !.built_path = <<>>]

\* the platform's method asked before the descriptor is looked at
EnterRecover_PlatFirst(s, fd, plat) ==
    IF ~plat THEN (IF fd < 0 THEN Recovered(s, "EBADF", <<>>) ELSE StartReverse(s, fd))
    ELSE IF try_recover_fd_path(s, fd) # <<>>
    THEN Recovered(Log(s, <<"readlink", "/proc/self/fd", fd>>), "", try_recover_fd_path(s, fd))
    ELSE IF fd < 0 THEN Recovered(Log(s, <<"readlink", "/proc/self/fd", fd>>), "EBADF", <<>>)
    ELSE StartReverse(Log(s, <<"readlink", "/proc/self/fd", fd>>), fd)

\* lines 28-34: negative descriptors, then the platform's own method
EnterRecover(s, fd, plat) ==
    IF fd < 0 THEN Recovered(s, "EBADF", <<>>)
    ELSE IF ~plat THEN StartReverse(s, fd)
    ELSE IF try_recover_fd_path(s, fd) # <<>>
    THEN Recovered(Log(s, <<"readlink", "/proc/self/fd", fd>>), "", try_recover_fd_path(s, fd))
    ELSE StartReverse(Log(s, <<"readlink", "/proc/self/fd", fd>>), fd)

\* sub_fd closed also when it is the descriptor of the caller
ReverseFinally_Always(s) == os_close(s, s.sub_fd)

\* `finally: if sub_fd != orig_fd: os.close(sub_fd)`
ReverseFinally(s) == IF s.sub_fd # s.orig_fd THEN os_close(s, s.sub_fd) ELSE s

\* _recover_fname's scan: the entries of the parent that are directories with
\* sub_stat's identity; the entries `bad` cannot be looked at (OSError) and
\* are passed over
Matching(s, parent_fd, bad) ==
    {n \in Names \ bad :
        /\ dirents[os_fstat(s, parent_fd)][n] # NoNode
        /\ Kind[dirents[os_fstat(s, parent_fd)][n]] = "dir"
        /\ samestat(s.sub_stat, dirents[os_fstat(s, parent_fd)][n])}

\* built_path = fname + built_path: the name put after what was built so far
Joined_Append(s, fname) ==
    IF s.built_path # <<>> THEN os_path_join(s.built_path, fname) ELSE fname

\* built_path = os.path.join(fname, built_path) if built_path else fname
Joined(s, fname) ==
    IF s.built_path # <<>> THEN os_path_join(fname, s.built_path) ELSE fname

\* built_path = fname: the names found before are dropped
NextUp_Overwrite(s, parent_fd, fname) ==
    [s EXCEPT !.built_path = fname,
              !.sub_fd = parent_fd,
              !.sub_stat = os_fstat(s, parent_fd)]

\* lines 73-82: the name was found, the parent becomes the directory looked for
NextUp(s, parent_fd, fname) ==
    [s EXCEPT !.built_path = Joined(s, fname),
              !.sub_fd = parent_fd,
              !.sub_stat = os_fstat(s, parent_fd)]

\* lines 61-71: opening ".." returned the same directory
TopReached(s, parent_fd) ==
    IF samestat(os_fstat(s, parent_fd), RootDir)
    THEN Recovered(Log(os_close(s, parent_fd), <<"stat", slash>>), "", slash \o s.built_path)
    ELSE Recovered(Log(os_close(s, parent_fd), <<"stat", slash>>), "ENOENT", <<>>)

\* lines 49-80: after `parent_fd = os.open("..", ...)` gave o; the results are
\* the states the scan of the parent can lead to.  The log keeps the scan, the
\* entries that could not be looked at and the error of os.scandir
ParentOpened(o, fault, bad) ==
    IF o.errno # "" THEN {Recovered(o.s, o.errno, <<>>)}
    ELSE IF fault = <<"fstat", 0>>
    THEN {Recovered(os_close(Log(o.s, <<"fstat", o.fd>>), o.fd), "EIO", <<>>)}
    ELSE IF samestat(o.s.sub_stat, os_fstat(o.s, o.fd))
    THEN {TopReached(Log(o.s, <<"fstat", o.fd>>), o.fd)}
    ELSE IF fault = <<"scandir", 0>>
    THEN {Recovered(os_close(Log(Log(o.s, <<"fstat", o.fd>>),
                                 <<"scandir", o.fd, {}, "EACCES">>), o.fd), "EACCES", <<>>)}
    ELSE IF Matching(o.s, o.fd, bad) = {}
    THEN {Recovered(os_close(Log(Log(o.s, <<"fstat", o.fd>>),
                                 <<"scandir", o.fd, bad, "">>), o.fd), "ENOENT", <<>>)}
    ELSE {NextUp(Log(Log(o.s, <<"fstat", o.fd>>), <<"scandir", o.fd, bad, "">>), o.fd, fname) :
             fname \in Matching(o.s, o.fd, bad)}

\* one run of the `while True` loop
ReverseLoop(s, fault, bad) ==
    LET o == os_open(s, s.sub_fd, dotdot, {}, fault)
    IN  ParentOpened([o EXCEPT !.s = ReverseFinally(o.s)], fault, bad)

\* the descriptors of the process that calls recover_fd_path
OpenedDir == 0

\* its descriptors 1, 2, 3 are open to a regular file, a pipe and a socket
OpenedFiles == <<"B", "P", "S">>

\* the tree of the tests, with E an empty directory; a descriptor is open to
\* any of the directories
InitRecover ==
    LET
        RecoverFds ==
            {NoFd, -10, AT_FDCWD, OpenedDir, Len(OpenedFiles) + 1} \cup DOMAIN OpenedFiles

        InitRecoverer(d) ==
            [pc |-> "call",
             fdt |-> [f \in Fds |->
                        IF f = OpenedDir THEN [node |-> d, flags |-> {}]
                        ELSE IF f \in DOMAIN OpenedFiles
                        THEN [node |-> OpenedFiles[f], flags |-> {}]
                        ELSE Closed],
             log |-> <<>>,
             ebadf |-> FALSE,
             orig_fd |-> NoFd,
             sub_fd |-> NoFd,
             sub_stat |-> NoNode,
             built_path |-> <<>>,
             ret |-> <<>>,
             errno |-> ""]
    IN
        /\ args \in [fd : RecoverFds, plat : BOOLEAN]
        /\ inject = FALSE
        /\ dirents = [InitDirents EXCEPT !["E"] = Entries({})]
        /\ up = InitUp
        /\ renames = 0
        /\ w \in {InitRecoverer(d) : d \in Dirs}

\* os.rename of a directory, to a new name or into another directory, after
\* the descriptor was opened and before the call
RenameOpened ==
    /\ w.pc = "call"
    /\ renames < MaxRenames
    /\ \E d \in Movable, p \in Dirs, n \in Names :
        /\ NameOf(d) # NoNode
        /\ ~Below(p, d) /\ dirents[p][n] = NoNode
        /\ dirents' = [[dirents EXCEPT ![up[d]][NameOf(d)] = NoNode] EXCEPT ![p][n] = d]
        /\ up' = [up EXCEPT ![d] = p]
    /\ renames' = renames + 1
    /\ UNCHANGED <<args, inject, w>>

\* os.rmdir of an empty directory before the call; its ".." stays
Rmdir ==
    /\ w.pc = "call"
    /\ renames < MaxRenames
    /\ \E d \in Movable :
        /\ NameOf(d) # NoNode
        /\ \A n \in Names : dirents[d][n] = NoNode
        /\ dirents' = [dirents EXCEPT ![up[d]][NameOf(d)] = NoNode]
    /\ renames' = renames + 1
    /\ UNCHANGED <<args, inject, up, w>>

\* recover_fd_path(fd) is called
RecoverFdPath ==
    /\ w.pc = "call"
    /\ w' = EnterRecover(w, args.fd, args.plat)
    /\ UNCHANGED Env

\* one step up of the reverse walk
ReverseStep ==
    /\ w.pc = "walk"
    /\ \E fault \in (IF inject THEN {NoFault} \cup ({"open", "fstat", "scandir"} \X {0})
                                ELSE {NoFault}),
          bad \in (IF inject THEN {{}, Names} \cup {{n} : n \in Names} ELSE {{}}) :
          w' \in ReverseLoop(w, fault, bad)
    /\ UNCHANGED Env

NextRecover ==
    \/ RenameOpened
    \/ Rmdir
    \/ RecoverFdPath
    \/ ReverseStep

SpecRecover == InitRecover /\ [][NextRecover]_vars

\* a tree where the filesystem E is mounted beside the empty directory A; any
\* system call of the reverse walk may fail, and entries of the scan may not
\* be looked at
InitScan ==
    /\ args \in [fd : {OpenedDir}, plat : BOOLEAN]
    /\ inject = TRUE
    /\ dirents = [InitDirents EXCEPT
                      !["T"] = Entries({<<"a", "A">>, <<"b", "B">>, <<"e", "E">>}),
                      !["A"] = Entries({}),
                      !["E"] = Entries({})]
    /\ up = [InitUp EXCEPT !["E"] = "T"]
    /\ renames = 0
    /\ w \in {[pc |-> "call",
                fdt |-> [f \in Fds |->
                           IF f = OpenedDir THEN [node |-> d, flags |-> {}]
                           ELSE IF f \in DOMAIN OpenedFiles
                           THEN [node |-> OpenedFiles[f], flags |-> {}]
                           ELSE Closed],
                log |-> <<>>,
                ebadf |-> FALSE,
                orig_fd |-> NoFd,
                sub_fd |-> NoFd,
                sub_stat |-> NoNode,
                built_path |-> <<>>,
                ret |-> <<>>,
                errno |-> ""] : d \in Dirs}

\* recover_fd_path in that tree
SpecScan == InitScan /\ [][Rmdir \/ RecoverFdPath \/ ReverseStep]_vars

(***************************************************************************)
(* The round trip: open_beneath returns a directory, recover_fd_path gives  *)
(* its path, and open_beneath is called on that path beneath the same root. *)
(* args has two more fields: plat as above, and first, the descriptor the   *)
(* first call returned (NoFd until then).                                   *)
(***************************************************************************)
\* the first calls: the root is T or the process's root directory G, and the
\* paths have one component more, so that every directory is reached from G
InitTrip ==
    /\ args \in [path : {Join(comps) : comps \in UNION {[1..k -> {<<"t">>, <<"a">>, <<"e">>, <<"f">>,
                                                                 dot, dotdot}] :
                                                     k \in 1..(MaxParts + 1)}},
                 flags : {{}, {O_PATH}}, dir_fd : {CallerFd, RootFd},
                 no_symlinks : BOOLEAN, remember_parents : BOOLEAN, audit_func : {FALSE},
                 plat : BOOLEAN, first : {NoFd}]
    /\ inject = FALSE
    /\ dirents = InitDirents
    /\ up = InitUp
    /\ renames = 0
    /\ w = InitWalker

\* path = recover_fd_path(F) for the directory descriptor F the first call
\* returned, and then open_beneath(path, flags, dir_fd=R, ...) is called
RecoverAndReopen ==
    /\ w.pc = "done" /\ w.errno = "" /\ args.first = NoFd
    /\ Kind[w.fdt[w.ret].node] = "dir"
    /\ LET RECURSIVE RunReverse(_)
           RunReverse(f) ==
                IF f.pc = "done" THEN f ELSE RunReverse(CHOOSE g \in ReverseLoop(f, NoFault, {}) : TRUE)
           r == RunReverse(EnterRecover([pc |-> "call", fdt |-> w.fdt, log |-> <<>>,
                                         ebadf |-> FALSE, orig_fd |-> NoFd, sub_fd |-> NoFd,
                                         sub_stat |-> NoNode, built_path |-> <<>>,
                                         ret |-> <<>>, errno |-> ""],
                                        w.ret, args.plat))
       IN  /\ r.errno = ""
           /\ args' = [args EXCEPT !.path = r.ret, !.first = w.ret]
           /\ w' = [InitWalker EXCEPT !.fdt = r.fdt]
    /\ UNCHANGED <<inject, dirents, up, renames>>

NextTrip == Next \/ RecoverAndReopen

SpecTrip == InitTrip /\ [][NextTrip]_vars

(***************************************************************************)
(* Properties                                                              *)
(***************************************************************************)
OpenFds(s) == {f \in Fds : s.fdt[f] # Closed}

\* the descriptors the caller holds when it calls open_beneath
CallerFds == IF args.dir_fd = NoFd THEN {} ELSE {args.dir_fd}

Done == w.pc = "done"
Succeeded == Done /\ w.errno = ""
Failed == Done /\ w.errno # ""

\* the root the caller names is a directory (the working directory is one)
RootIsDirectory == Kind[CallerNode(args.dir_fd)] = "dir"

\* C1: when open_beneath exits, no close has hit a descriptor that was not
\* open, and the open descriptors are the caller's own plus, on success
\* only, the returned one: every other descriptor the walker or the verifier
\* opened has been closed exactly once.
C1_NoLeak ==
    Done =>
        /\ ~w.ebadf
        /\ Succeeded => /\ w.ret \in Fds \ CallerFds
                        /\ OpenFds(w) = CallerFds \cup {w.ret}
        /\ Failed => OpenFds(w) = CallerFds

\* a raising audit callback unwinds a walk that holds a cursor and remembered parents
C1_Witness ==
    /\ Failed /\ w.errno = "AuditError"
    /\ Len(w.parent_fds) >= 1
    /\ Cardinality({k \in 1..Len(w.log) : w.log[k][1] = "close"}) >= 2

\* the places of the log where `name` was opened
OpensOf(s, name) == {k \in 1..Len(s.log) : s.log[k][1] = "open" /\ s.log[k][3] = name}

\* C2: in a filesystem that does not change during the call, a successful
\* open_beneath returns a descriptor to the root directory itself or to a file
\* whose chain of parent directories reaches the root directory.
C2_Confined ==
    LET
        \* the directory that holds file n
        ParentOf(n) ==
            IF Kind[n] = "dir" THEN up[n]
            ELSE CHOOSE d \in Dirs : \E name \in Names : dirents[d][name] = n

        \* file n is the root directory or its chain of parent directories reaches it
        Beneath(n) == n = Root \/ Below(ParentOf(n), Root)
    IN
        Succeeded => Beneath(w.fdt[w.ret].node)

\* a walk through symlinks and `..` steps that came out with a descriptor
C2_Witness ==
    /\ Succeeded /\ ~w.remember_parents
    /\ w.found_symlinks >= 2
    /\ Cardinality(OpensOf(w, dotdot)) >= 2
    /\ w.fdt[w.ret].node = "B"

\* the places of the log where the walk itself opened `..` through the filesystem
WalkedUp(s) ==
    LET
        \* place k of the log lies within a run of the escape verifier
        InVerifier(log, k) ==
            \E c \in 1..(k - 1) :
                /\ log[c][1] = "check"
                /\ \A m \in (c + 1)..(k - 1) : log[m][1] # "checked"
    IN
        {k \in OpensOf(s, dotdot) : s.log[k][7] = "" /\ ~InVerifier(s.log, k)}

\* C3: under the stateless policy, when a rename by another process has moved
\* the cursor's directory out of the root so that a `..` step of the walk
\* opens a directory above the root, the call fails with EXDEV and returns no
\* descriptor.
C3_EscapeDetected ==
    (Done /\ \E k \in WalkedUp(w) : (w.log[k][5] # Root /\ Below(Root, w.log[k][5])))
        => (w.errno = "EXDEV" /\ w.ret = NoFd)

\* a directory was renamed out of the root while the walk was in it, two `..`
\* steps went up from there, and the call ended in EXDEV
C3_Witness ==
    /\ Failed /\ w.errno = "EXDEV"
    /\ renames >= 1
    /\ ~w.remember_parents
    /\ Cardinality(WalkedUp(w)) >= 2
    /\ \E k \in WalkedUp(w) : (w.log[k][5] # Root /\ Below(Root, w.log[k][5]))

\* the places of the log where an ordinary name was looked up
NameLookups(s) ==
    {k \in 1..Len(s.log) : s.log[k][1] \in {"open", "readlink"} /\ s.log[k][3] \in Names}

\* a run of the verifier that reported CONTAINED ends between places j and k
ContainedBetween(s, j, k) ==
    \E m \in (j + 1)..(k - 1) : s.log[m][1] = "checked" /\ s.log[m][2] = ""

C5_RootBorrowed ==
    LET
        \* the places of the log where descriptor fd was closed
        ClosesOf(s, fd) == {k \in 1..Len(s.log) : s.log[k][1] = "close" /\ s.log[k][2] = fd}
    IN
        args.dir_fd # NoFd =>
            /\ IsOpen(w, args.dir_fd)
            /\ w.fdt[args.dir_fd].node = CallerNode(args.dir_fd)
            /\ ClosesOf(w, args.dir_fd) = {}
            /\ args.dir_fd \notin Elems(w.parent_fds)

\* a walk with remembered parents went down, came back to the root through a
\* root marker, and then failed
C5_Witness ==
    /\ Failed /\ args.dir_fd = CallerFd
    /\ w.remember_parents
    /\ w.cur_fd = w.dir_fd
    /\ w.found_symlinks >= 1
    /\ Cardinality({k \in 1..Len(w.log) : w.log[k][1] = "close"}) >= 2

\* the file behind the returned descriptor
Returned == w.fdt[w.ret].node

\* C6: an absolute path, or a symlink whose target starts with `/`, is
\* resolved as under chroot(root): when the root marker is processed the
\* cursor becomes the root descriptor and every descriptor on the parent stack
\* is closed and removed, so that the components after it are looked up from
\* the root.
C6_RootMarker ==
    /\ [](LET
            \* /a opens T/a; d -> /b opens T/b, not the b next to T; a/e/d/e with
            \* E/d -> /a opens T/a/e
            ChrootExamples ==
                RootIsDirectory =>
                    /\ (Done /\ args.path = slash \o <<"a">>) => (Succeeded /\ Returned = "A")
                    /\ (Done /\ args.path = <<"d">> /\ ~args.no_symlinks /\ O_NOFOLLOW \notin args.flags)
                            => (Succeeded /\ Returned = "B")
                    /\ (Done /\ args.path = Join(<< <<"a">>, <<"e">>, <<"d">>, <<"e">> >>) /\ ~args.no_symlinks)
                            => (Succeeded /\ Returned = "E")
          IN  ChrootExamples)
    /\ [][LET
            \* a step of the walk that processes a root marker and goes on
            RootMarkerStep ==
                /\ w.pc = "loop" /\ w.parts # <<>> /\ Head(w.parts).part = slash
                /\ w'.pc = "loop"

            \* the root marker puts the cursor on the root descriptor and closes and
            \* removes every descriptor of the parent stack
            RootMarkerResets ==
                RootMarkerStep =>
                    /\ w'.cur_fd = w.dir_fd
                    /\ w'.parent_fds = <<>>
                    /\ \A fd \in Elems(w.parent_fds) : ~IsOpen(w', fd)
                    /\ w'.parts = Tail(w.parts)
          IN  RootMarkerResets]_vars

\* a walk with remembered parents has just processed the root marker of a
\* symlink target found two directories down
C6_Witness ==
    /\ w.pc = "loop" /\ w.remember_parents
    /\ w.found_symlinks = 1
    /\ w.cur_fd = w.dir_fd /\ w.parent_fds = <<>>
    /\ w.parts # <<>>
    /\ Cardinality({k \in 1..Len(w.log) : w.log[k][1] = "close"}) >= 2

\* the path has more `..` than descents before them and ends in the root
OverTheRoot ==
    LET
        \* where chroot(root) resolution of the work items `parts` ends when it starts
        \* in directory n and every name is a directory of the tree, NoNode otherwise
        RECURSIVE ClimbEnd(_, _)
        ClimbEnd(parts, n) ==
            IF parts = <<>> THEN n
            ELSE IF Head(parts).part = slash THEN ClimbEnd(Tail(parts), Root)
            ELSE IF Head(parts).part = dot THEN ClimbEnd(Tail(parts), n)
            ELSE IF Head(parts).part = dotdot
            THEN ClimbEnd(Tail(parts), IF n = Root THEN Root ELSE InitUp[n])
            ELSE IF Head(parts).part \in Names /\ InitDirents[n][Head(parts).part] \in Dirs
            THEN ClimbEnd(Tail(parts), InitDirents[n][Head(parts).part])
            ELSE NoNode

        \* on that way a `..` is met in the root directory
        RECURSIVE ClimbsOver(_, _)
        ClimbsOver(parts, n) ==
            IF parts = <<>> THEN FALSE
            ELSE IF Head(parts).part = slash THEN ClimbsOver(Tail(parts), Root)
            ELSE IF Head(parts).part = dot THEN ClimbsOver(Tail(parts), n)
            ELSE IF Head(parts).part = dotdot
            THEN n = Root \/ ClimbsOver(Tail(parts), InitUp[n])
            ELSE IF Head(parts).part \in Names /\ InitDirents[n][Head(parts).part] \in Dirs
            THEN ClimbsOver(Tail(parts), InitDirents[n][Head(parts).part])
            ELSE FALSE
    IN
        /\ args.path # <<>>
        /\ ClimbsOver(_split_path(args.path, args.flags), Root)
        /\ ClimbEnd(_split_path(args.path, args.flags), Root) = Root

\* C7: in a filesystem that does not change, a `..` processed while the
\* cursor is the root directory (the root descriptor or another descriptor
\* with the root's identity) leaves the cursor at the root under both
\* policies; and every path whose `..` outnumber the descents before them
\* returns a descriptor to the root directory itself and never fails.
C7_DotDotAtRoot ==
    /\ [](Done /\ RootIsDirectory /\ OverTheRoot => Succeeded /\ Returned = Root)
    /\ [][LET
            \* a `..` processed with the cursor on the root directory leaves it on the
            \* root descriptor
            DotDotAtRootStays ==
                (/\ w.pc = "loop" /\ w.parts # <<>> /\ Head(w.parts).part = dotdot
                 /\ w.fdt[w.cur_fd].node = Root
                 /\ w'.pc = "loop")
                    => (w'.cur_fd = w.dir_fd /\ ~w'.saw_parent_elem /\ w'.parent_fds = <<>>)
          IN  DotDotAtRootStays]_vars

\* the stateless walk went two directories down, came back up through the
\* filesystem, met one more `..` in the root directory and returned the root
C7_Witness ==
    /\ Succeeded /\ OverTheRoot
    /\ ~w.remember_parents
    /\ Cardinality(WalkedUp(w)) >= 2
    /\ Returned = Root

\* the same call made with the other value of remember_parents
OtherPolicy ==
    LET
        \* the walk from state s to its end in a filesystem that does not change
        RECURSIVE RunToEnd(_)
        RunToEnd(s) ==
            IF s.pc = "done" THEN s
            ELSE IF s.pc = "symlink" THEN RunToEnd(SymlinkBranch(s, NoFault))
            ELSE IF s.parts = <<>> THEN RunToEnd(LeaveWalk(s, NoFault))
            ELSE RunToEnd(Iteration(s, NoFault))
    IN
        RunToEnd(EnterWalk(InitWalker, ~args.remember_parents, NoFault))

\* C8: in a filesystem that does not change, for every path, flag set and
\* no_symlinks setting, open_beneath with remember_parents=True and with
\* remember_parents=False either both return a descriptor to the same file or
\* both fail with the same errno (descriptor exhaustion aside).
C8_PoliciesAgree ==
    LET
        \* what a finished call gave: its errno, or the file behind its descriptor
        Outcome(s) == IF s.errno # "" THEN <<s.errno, NoNode>> ELSE <<"", s.fdt[s.ret].node>>
    IN
        (Done /\ w.errno # "EMFILE" /\ OtherPolicy.errno # "EMFILE")
            => Outcome(w) = Outcome(OtherPolicy)

\* a call that went up through remembered parents only, where the other
\* policy opens `..` twice through the filesystem
C8_Witness ==
    /\ Succeeded /\ w.remember_parents
    /\ OpensOf(w, dotdot) = {}
    /\ ~OtherPolicy.remember_parents
    /\ Cardinality(WalkedUp(OtherPolicy)) >= 2
    /\ Returned # Root

\* the places of the log where an open hit a symlink
SymlinkHits(s) ==
    {k \in 1..Len(s.log) :
        /\ s.log[k][1] = "open"
        /\ s.log[k][5] \in Nodes
        /\ Kind[s.log[k][5]] = "lnk"}

\* nothing is opened after a symlink was hit
NothingOpenedAfter(s) ==
    \A k \in SymlinkHits(s) : \A m \in (k + 1)..Len(s.log) : s.log[m][1] # "open"

\* the call asks for a descriptor to a final symlink itself
OpensLinkItself ==
    /\ {O_PATH, O_NOFOLLOW} \subseteq args.flags
    /\ ~EndsWith(args.path, slash)
    /\ w.parts = <<>>

\* C9 as stated: with no_symlinks=True, if any component reached during the
\* walk is a symlink, the call fails with ELOOP and no component of the
\* symlink's target is put on the work queue or opened.
C9_Original ==
    args.no_symlinks =>
        /\ (LET IsSuffix(a, b) == Len(a) <= Len(b) /\ a = SubSeq(b, Len(b) - Len(a) + 1, Len(b)) IN (w.pc # "call" /\ args.path # <<>>) => IsSuffix(w.parts, _split_path(args.path, args.flags \cup {O_NOCTTY})))
        /\ (Done /\ SymlinkHits(w) # {}) => (w.errno = "ELOOP" /\ NothingOpenedAfter(w))

\* C9: with no_symlinks=True, if any component reached during the walk is a
\* symlink, intermediate or final, the call fails with ELOOP (not ENOTDIR),
\* except that a final symlink asked for with both O_PATH and O_NOFOLLOW and
\* no trailing slash is itself opened and returned, unread; in either case no
\* component of the symlink's target is put on the work queue or opened.
C9_NoSymlinks ==
    args.no_symlinks =>
        /\ (LET IsSuffix(a, b) == Len(a) <= Len(b) /\ a = SubSeq(b, Len(b) - Len(a) + 1, Len(b)) IN (w.pc # "call" /\ args.path # <<>>) => IsSuffix(w.parts, _split_path(args.path, args.flags \cup {O_NOCTTY})))
        /\ (Done /\ SymlinkHits(w) # {}) =>
            /\ NothingOpenedAfter(w)
            /\ IF OpensLinkItself
               THEN Succeeded /\ Kind[Returned] = "lnk" /\ w.found_symlinks = 0
               ELSE w.errno = "ELOOP" /\ w.ret = NoFd

\* an intermediate symlink was hit and read under no_symlinks=True and the call
\* ended in ELOOP with the rest of the path still queued
C9_Witness ==
    /\ Failed /\ args.no_symlinks
    /\ w.errno = "ELOOP"
    /\ SymlinkHits(w) # {}
    /\ w.found_symlinks = 1
    /\ w.parts # <<>>

\* the call is over and the last file the walk opened or tried to open, as
\* the last item of the queue, is a symlink
FinalIsSymlink ==
    /\ Done /\ w.parts = <<>>
    /\ \E k \in SymlinkHits(w) : \A m \in (k + 1)..Len(w.log) : w.log[m][1] # "open"

\* a symlink met before the end of the path is followed although the caller
\* gave O_NOFOLLOW: f/.. with f -> a/e opens a, and the only ELOOP is the one
\* of a final symlink or of the symlink budget
IntermediateFollowed ==
    (O_NOFOLLOW \in args.flags /\ ~args.no_symlinks /\ Done /\ RootIsDirectory) =>
        /\ args.path = Join(<< <<"f">>, dotdot >>) => (Succeeded /\ Returned = "A")
        /\ w.errno = "ELOOP" => (FinalIsSymlink \/ w.found_symlinks > max_symlinks)

\* C10 as stated: O_NOFOLLOW in the caller's flags applies to the final
\* component only: if the final component is a symlink the call fails with
\* ELOOP and returns no descriptor, while a symlink at an intermediate
\* component is still followed.
C10_Original ==
    /\ (O_NOFOLLOW \in args.flags /\ FinalIsSymlink) => (w.errno = "ELOOP" /\ w.ret = NoFd)
    /\ IntermediateFollowed

\* C10: O_NOFOLLOW in the caller's flags applies to the final component only:
\* if the final component is a symlink the call fails with ELOOP and returns
\* no descriptor, unless the flags also hold O_PATH and the path has no
\* trailing slash, in which case the descriptor returned is open on the
\* symlink itself; a symlink at an intermediate component is still followed.
C10_NoFollowFinal ==
    /\ [](/\ (O_NOFOLLOW \in args.flags /\ FinalIsSymlink) =>
                IF OpensLinkItself
                THEN Succeeded /\ Kind[Returned] = "lnk"
                ELSE w.errno = "ELOOP" /\ w.ret = NoFd
          /\ IntermediateFollowed)
    /\ [][LET
            \* a symlink found for an item that carries O_NOFOLLOW ends the call with ELOOP
            \* and leaves the queue as it is
            NofollowStops ==
                (/\ w.pc = "symlink" /\ O_NOFOLLOW \in w.pend.flags
                 /\ Lookup(BaseNode(w, w.cur_fd), w.pend.part) \in Nodes
                 /\ Kind[Lookup(BaseNode(w, w.cur_fd), w.pend.part)] = "lnk")
                    => (w'.pc = "done" /\ w'.errno = "ELOOP" /\ w'.ret = NoFd /\ w'.parts = w.parts)
          IN  NofollowStops]_vars

\* with O_NOFOLLOW, a first symlink in the middle of the path was followed and
\* a second one at its end stopped the call with ELOOP
C10_Witness ==
    /\ Failed /\ w.errno = "ELOOP"
    /\ O_NOFOLLOW \in args.flags /\ ~args.no_symlinks
    /\ FinalIsSymlink
    /\ w.found_symlinks = 2

\* the budget: the call goes on up to 40 symlinks read and ends with ELOOP on
\* the 41st; no other ELOOP but the one of a final symlink under O_NOFOLLOW
SymlinkBudget ==
    ~args.no_symlinks =>
        /\ w.found_symlinks <= 41
        /\ w.found_symlinks = 41 => (Failed /\ w.errno = "ELOOP")
        /\ (Done /\ w.errno = "ELOOP")
            => (w.found_symlinks = 41 \/ (O_NOFOLLOW \in args.flags /\ FinalIsSymlink))

\* C11 as stated: with symlinks allowed the counter is cumulative, a walk that
\* reads at most 40 symlinks is not rejected for their number, the 41st read
\* fails with ELOOP, and so the calls on r -> r (r, a/../r, r/a) fail with ELOOP.
C11_Original ==
    /\ SymlinkBudget
    /\ (Done /\ RootIsDirectory /\ ~args.no_symlinks /\ args.path \in {<<"r">>, Join(<< <<"a">>, dotdot, <<"r">> >>), Join(<< <<"r">>, <<"a">> >>)}) => w.errno = "ELOOP"

\* C11: with symlinks allowed the counter is cumulative and never reset, a
\* walk that reads at most 40 symlinks is not rejected for their number, and
\* the 41st symlink read makes the call fail with ELOOP; so every call that
\* reads the self-referential symlink r -> r fails with ELOOP, also when other
\* components precede or follow it (the only call on r that does not read it,
\* r as final component with O_PATH and O_NOFOLLOW, returns the symlink).
C11_SymlinkBudget ==
    /\ [](/\ SymlinkBudget
          /\ (Done /\ RootIsDirectory /\ ~args.no_symlinks /\ args.path \in {<<"r">>, Join(<< <<"a">>, dotdot, <<"r">> >>), Join(<< <<"r">>, <<"a">> >>)}) =>
                IF OpensLinkItself
                THEN Succeeded /\ Returned = "Lr" /\ w.found_symlinks = 0
                ELSE w.errno = "ELOOP" /\ w.ret = NoFd)
    /\ [][LET
            \* the counter is never reset: a step leaves it or adds one
            CounterCumulative == w'.found_symlinks \in {w.found_symlinks, w.found_symlinks + 1}
          IN  CounterCumulative]_vars

\* a/../r read the symlink 41 times, going on after each of the first 40, and
\* ended with ELOOP
C11_Witness ==
    /\ Failed /\ w.errno = "ELOOP"
    /\ args.path = Join(<< <<"a">>, dotdot, <<"r">> >>)
    /\ O_NOFOLLOW \notin args.flags
    /\ w.found_symlinks = 41
    /\ Cardinality({k \in 1..Len(w.log) : w.log[k][1] = "readlink"}) = 41

\* C12: if remember_parents is true, every `..` of the walk is resolved with
\* the parent stack and never by opening `..` relative to the cursor; the walk
\* is stateless only when remember_parents is false, or when no_symlinks is
\* set and the walk will never see a `..`.
C12_ParentStackPolicy ==
    LET
        \* the path's own work items hold a `..`
        PathHasDotDot ==
            /\ args.path # <<>>
            /\ \E k \in 1..Len(_split_path(args.path, args.flags \cup {O_NOCTTY})) :
                _split_path(args.path, args.flags \cup {O_NOCTTY})[k].part = dotdot
    IN
        args.remember_parents =>
            /\ WalkedUp(w) = {}
            /\ w.pc \in {"loop", "symlink"}
                => (w.remember_parents \/ (args.no_symlinks /\ ~PathHasDotDot))

\* C13: when the queue is drained without error, a cursor equal to the root
\* descriptor gives a newly opened descriptor for `.` relative to the root,
\* opened with the caller's original flags; otherwise the cursor itself is
\* returned, and it was opened with the final work item's flags, never with
\* the directory-open flags alone.  The returned descriptor is never the root
\* descriptor and never a member of the parent stack.
C13_ReturnValue ==
    LET
        \* the returned descriptor is the cursor, opened with the caller's flags (and
        \* what the walk adds to them), not with the directory-open flags alone
        ReturnedCursor ==
            /\ w.ret = w.cur_fd
            /\ args.flags \cup {O_NOCTTY} \subseteq w.fdt[w.ret].flags
            /\ w.fdt[w.ret].flags \subseteq args.flags \cup {O_NOCTTY, O_NOFOLLOW, O_DIRECTORY}
            /\ w.fdt[w.ret].flags # DIR_OPEN_FLAGS
    IN
        Succeeded =>
            /\ w.ret # w.dir_fd /\ w.ret # args.dir_fd
            /\ w.ret \notin Elems(w.parent_fds)
            /\ IsOpen(w, w.ret)
            /\ IF w.cur_fd = w.dir_fd THEN (\E k \in 1..Len(w.log) : (w.log[k][1] = "open" /\ w.log[k][2] = w.dir_fd /\ w.log[k][3] = dot /\ w.log[k][4] = args.flags \cup {O_NOCTTY} /\ w.log[k][6] = w.ret /\ (\A m \in (k + 1)..Len(w.log) : w.log[m][1] # "open"))) ELSE ReturnedCursor

\* a walk with O_PATH went down, came back to the caller's root descriptor
\* and returned a new descriptor for it
C13_Witness ==
    /\ Succeeded /\ args.dir_fd = CallerFd
    /\ O_PATH \in args.flags
    /\ w.cur_fd = w.dir_fd
    /\ (\E k \in 1..Len(w.log) : (w.log[k][1] = "open" /\ w.log[k][2] = w.dir_fd /\ w.log[k][3] = dot /\ w.log[k][4] = args.flags \cup {O_NOCTTY} /\ w.log[k][6] = w.ret /\ (\A m \in (k + 1)..Len(w.log) : w.log[m][1] # "open")))
    /\ Cardinality({k \in 1..Len(w.log) : w.log[k][1] = "close"}) >= 1

\* C14: if the original path ends with `/`, the final work item carries
\* O_DIRECTORY, also after symlink expansion of the final component; so a
\* path with a trailing slash whose last component resolves, directly or
\* through symlinks, to a non-directory fails with ENOTDIR.
C14_TrailingSlash ==
    LET
        \* while a path with a trailing separator is walked, the last item of the
        \* queue, or the final item whose symlink is being read, carries O_DIRECTORY
        TrailingSlashKept ==
            (EndsWith(args.path, slash) /\ w.pc \in {"loop", "symlink"}) =>
                /\ w.parts # <<>> => O_DIRECTORY \in w.parts[Len(w.parts)].flags
                /\ (w.parts = <<>> /\ w.pc = "symlink") => O_DIRECTORY \in w.pend.flags
    IN
        /\ TrailingSlashKept
        /\ (EndsWith(args.path, slash) /\ (Done /\ w.parts = <<>> /\ (\E k \in 1..Len(w.log) : (w.log[k][1] = "open" /\ w.log[k][5] \in Nodes /\ Kind[w.log[k][5]] = "reg" /\ (\A m \in (k + 1)..Len(w.log) : w.log[m][1] # "open")))))
                => (w.errno = "ENOTDIR" /\ w.ret = NoFd)

\* a path with a trailing slash came through a symlink to a regular file and
\* failed with ENOTDIR
C14_Witness ==
    /\ Failed /\ w.errno = "ENOTDIR"
    /\ EndsWith(args.path, slash)
    /\ w.found_symlinks >= 1
    /\ (Done /\ w.parts = <<>> /\ (\E k \in 1..Len(w.log) : (w.log[k][1] = "open" /\ w.log[k][5] \in Nodes /\ Kind[w.log[k][5]] = "reg" /\ (\A m \in (k + 1)..Len(w.log) : w.log[m][1] # "open"))))

\* the places of an event sequence where the audit callback is called with `kind`
AuditCalls(events, kind) ==
    {k \in 1..Len(events) : events[k][1] = "audit" /\ events[k][2] = kind}

\* C15: when an audit callback is given, it is called with ("before", cursor,
\* component) exactly once for every work item dequeued, before any
\* filesystem operation or verifier run for that item, and with ("symlink",
\* cursor, target) exactly once per successful readlink, before the symlink
\* counter and O_NOFOLLOW check, so also for the symlink that makes the call
\* fail with ELOOP.
C15_AuditCalls ==
    [][LET
        \* the events a step adds to the log
        NewLog == SubSeq(w'.log, Len(w.log) + 1, Len(w'.log))

        \* a step that takes a work item from the queue
        DequeueStep == w.pc = "loop" /\ w.parts # <<>>

        \* a step that reads the symlink found for the pending name
        ReadlinkStep ==
            /\ w.pc = "symlink"
            /\ Lookup(BaseNode(w, w.cur_fd), w.pend.part) \in Nodes
            /\ Kind[Lookup(BaseNode(w, w.cur_fd), w.pend.part)] = "lnk"

        \* ("before", cursor, component) is the first thing a dequeue step does, and
        \* is called once in it and in no other step
        AuditedBefore ==
            /\ DequeueStep =>
                /\ AuditCalls(NewLog, "before") = {1}
                /\ NewLog[1][3] = w.cur_fd
                /\ NewLog[1][4] = Head(w.parts).part
            /\ ~DequeueStep => AuditCalls(NewLog, "before") = {}

        \* ("symlink", cursor, target) follows the readlink at once, once, whether the
        \* step goes on or ends the call with ELOOP, and is called in no other step
        AuditedSymlink ==
            /\ ReadlinkStep =>
                /\ NewLog[1][1] = "readlink"
                /\ AuditCalls(NewLog, "symlink") = {2}
                /\ NewLog[2][3] = w.cur_fd
                /\ NewLog[2][4] = LinkTarget[Lookup(BaseNode(w, w.cur_fd), w.pend.part)]
                /\ w'.found_symlinks = w.found_symlinks + 1
            /\ ~ReadlinkStep => AuditCalls(NewLog, "symlink") = {}
       IN  args.audit_func => (AuditedBefore /\ AuditedSymlink)]_vars

\* the callback was told of the final symlink that O_NOFOLLOW then refused
C15_Witness ==
    /\ Failed /\ w.errno = "ELOOP"
    /\ args.audit_func /\ O_NOFOLLOW \in args.flags
    /\ w.found_symlinks = 1
    /\ AuditCalls(w.log, "symlink") # {}
    /\ \A k \in AuditCalls(w.log, "symlink") : \A m \in (k + 1)..Len(w.log) : w.log[m][1] = "close"

\* C16: with a root that is a directory, open_beneath with an empty path
\* fails with ENOENT for every flags, policy and audit setting, without
\* calling the audit callback or opening any component; when dir_fd is None
\* the working-directory descriptor opened by the call is closed before the
\* error propagates.
C16_EmptyPath ==
    LET
        \* the only os.open of the call, if any, is the wrapper's own of the working
        \* directory, and that descriptor has been closed again
        OnlyWrapperOpen ==
            \A k \in 1..Len(w.log) :
                w.log[k][1] = "open" =>
                    /\ args.dir_fd = NoFd
                    /\ w.log[k][2] = AT_FDCWD /\ w.log[k][3] = dot
                    /\ \E m \in (k + 1)..Len(w.log) :
                        w.log[m][1] = "close" /\ w.log[m][2] = w.log[k][6]
    IN
        (Done /\ args.path = <<>> /\ args.dir_fd # FileFd) =>
            /\ w.errno = "ENOENT" /\ w.ret = NoFd
            /\ AuditCalls(w.log, "before") = {} /\ AuditCalls(w.log, "symlink") = {}
            /\ OnlyWrapperOpen
            /\ NameLookups(w) = {}
            /\ OpenFds(w) = CallerFds
            /\ ~w.ebadf

\* the empty path failed in a call that had opened the working directory
\* itself and had a callback to call
C16_Witness ==
    /\ Failed /\ args.path = <<>>
    /\ args.dir_fd = NoFd /\ args.audit_func
    /\ w.errno = "ENOENT"
    /\ OpensOf(w, dot) # {}
    /\ OpenFds(w) = {}

\* C17: if the root descriptor does not refer to a directory, open_beneath
\* fails with ENOTDIR for every path, the empty one too, before the path is
\* split, the audit callback is called or any component is opened.
C17_RootNotDirectory ==
    (Done /\ args.dir_fd = FileFd) =>
        /\ w.errno = "ENOTDIR" /\ w.ret = NoFd
        /\ w.parts = <<>>
        /\ AuditCalls(w.log, "before") = {} /\ AuditCalls(w.log, "symlink") = {}
        /\ \A k \in 1..Len(w.log) : w.log[k][1] \notin {"open", "readlink", "stat"}
        /\ OpenFds(w) = {FileFd}

\* the empty path, given with a regular file as root, failed with ENOTDIR
C17_Witness ==
    /\ Failed /\ args.dir_fd = FileFd
    /\ args.path = <<>> /\ args.audit_func
    /\ w.errno = "ENOTDIR"

\* C18: for every non-empty path, _split_path yields the root marker first
\* if and only if the path starts with `/`, then exactly the non-empty
\* substrings between separators in their original order; every item except
\* the last carries DIR_OPEN_FLAGS and the last carries the final flags.
C18_SplitPath ==
    LET
        \* the string with every run of separators made one separator
        RECURSIVE Squeeze(_)
        Squeeze(str) ==
            IF Len(str) < 2 THEN str
            ELSE IF <<str[1]>> = slash /\ <<str[2]>> = slash THEN Squeeze(Tail(str))
            ELSE <<str[1]>> \o Squeeze(Tail(str))

        \* the string without one leading and one trailing separator
        Trim(str) ==
            SubSeq(str, IF StartsWith(str, slash) THEN 2 ELSE 1,
                        IF EndsWith(str, slash) THEN Len(str) - 1 ELSE Len(str))

        \* the flags of the last work item of a call on `path` with the flags flags0
        FinalFlags(path, flags0) ==
            IF EndsWith(path, slash) THEN flags0 \cup {O_DIRECTORY} ELSE flags0

        \* `items` are the work items of `path` for the flags flags0: the root marker
        \* first iff the path starts with `/`, then the non-empty substrings between
        \* the separators in their order, DIR_OPEN_FLAGS on all but the last item and
        \* the final flags on the last
        IsSplitOf(items, path, flags0) ==
            LET n == Len(items)
                m == IF StartsWith(path, slash) THEN 1 ELSE 0
            IN  /\ n >= 1 /\ n >= m
                /\ (items[1].part = slash) <=> StartsWith(path, slash)
                /\ \A k \in (m + 1)..n :
                    /\ items[k].part # <<>>
                    /\ \A i \in 1..Len(items[k].part) : <<items[k].part[i]>> # slash
                /\ Join([k \in 1..(n - m) |-> items[k + m].part]) = Trim(Squeeze(path))
                /\ \A k \in 1..(n - 1) : items[k].flags = DIR_OPEN_FLAGS
                /\ items[n].flags = FinalFlags(path, flags0)
    IN
        (w.pc = "loop" /\ w.found_symlinks = 0 /\ AuditCalls(w.log, "before") = {}) => IsSplitOf(w.parts, args.path, args.flags \cup {O_NOCTTY})

\* a path with two separators in a row and one at its end was split in two items
C18_Witness ==
    /\ (w.pc = "loop" /\ w.found_symlinks = 0 /\ AuditCalls(w.log, "before") = {})
    /\ args.path = <<"a", "/", "/", "b", "/">>
    /\ Len(w.parts) = 2
    /\ w.parts[1] = Item(<<"a">>, DIR_OPEN_FLAGS)
    /\ w.parts[2].part = <<"b">>

\* C19: for every path pre/S/rest where S is a symlink with target t,
\* splitting t with the flags of S's work item and prepending the items to
\* the remaining queue gives the same work items as the remaining queue of
\* the textually substituted path (pre/t/rest for a relative t, t/rest for an
\* absolute t), for every combination of trailing slashes on the path and on
\* t and for S intermediate or final.
C19_SplitterRoundTrip ==
    LET
        \* the number of items taken from the queue
        Taken == Cardinality(AuditCalls(w.log, "before"))

        \* the places of a path where a component starts
        RunStarts(path) ==
            {i \in 1..Len(path) : <<path[i]>> # slash /\ (i = 1 \/ <<path[i - 1]>> = slash)}

        \* where the c-th component of a path starts
        RunStart(path, c) ==
            CHOOSE i \in RunStarts(path) : Cardinality({j \in RunStarts(path) : j < i}) = c - 1

        \* the path with the component of length len at place i replaced by the
        \* symlink target t: t in its place for a relative t, t and what follows the
        \* component for an absolute t
        Substituted(path, i, len, t) ==
            IF StartsWith(t, slash) THEN t \o SubSeq(path, i + len, Len(path))
            ELSE SubSeq(path, 1, i - 1) \o t \o SubSeq(path, i + len, Len(path))

        \* what is left of the queue of the substituted path when the k - 1 items
        \* before the component have been taken (none is taken for an absolute t)
        SubstitutedQueue(path, flags0, k, i, len, t) ==
            SubSeq(_split_path(Substituted(path, i, len, t), flags0),
                   IF StartsWith(t, slash) THEN 1 ELSE k,
                   Len(_split_path(Substituted(path, i, len, t), flags0)))

        \* the number of the component taken last among the path's components
        TakenComponent == Taken - (IF StartsWith(args.path, slash) THEN 1 ELSE 0)
    IN
        (w.pc = "loop" /\ w.found_symlinks = 1) =>
            /\ SubSeq(args.path, RunStart(args.path, TakenComponent),
                      RunStart(args.path, TakenComponent) + Len(w.pend.part) - 1) = w.pend.part
            /\ w.parts = SubstitutedQueue(args.path, args.flags \cup {O_NOCTTY}, Taken,
                                          RunStart(args.path, TakenComponent),
                                          Len(w.pend.part), w.log[Len(w.log)][4])

\* the final component of a/b/ was replaced by the items of the target /a/
C19_Witness ==
    /\ (w.pc = "loop" /\ w.found_symlinks = 1)
    /\ args.path = <<"a", "/", "b", "/">>
    /\ Cardinality(AuditCalls(w.log, "before")) = 2
    /\ w.log[Len(w.log)][4] = <<"/", "a", "/">>
    /\ Len(w.parts) = 2
    /\ O_DIRECTORY \in w.parts[2].flags

\* C20: when the fallback reverse walk has run for a descriptor open to a
\* directory that has a name in a chain of directories from the real root,
\* the call returns "/" followed by the current names of the directory's
\* ancestors and its own joined by "/" ("/" alone for the real root), and
\* that path resolved from the real root is the directory; a rename before
\* the call shows in the path.
C20_ReverseWalk ==
    LET
        \* the directory a path leads to from the real root, names looked up one by one
        RECURSIVE ResolveNames(_, _)
        ResolveNames(d, names) ==
            IF names = <<>> THEN d
            ELSE IF d = NoNode \/ Kind[d] # "dir" \/ Head(names) \notin Names THEN NoNode
            ELSE ResolveNames(dirents[d][Head(names)], Tail(names))

        Resolve(path) == ResolveNames(RootDir, FilterNonEmpty(StrSplit(path, <<>>)))

        \* the names of a directory's ancestors below the real root and its own, top first
        RECURSIVE NamesFromRoot(_)
        NamesFromRoot(d) ==
            IF d = RootDir THEN <<>> ELSE Append(NamesFromRoot(up[d]), NameOf(d))
    IN
        ((Done /\ (\E k \in 1..Len(w.log) : w.log[k][1] = "open")) /\ Linked(w.fdt[args.fd].node)) =>
            /\ w.errno = ""
            /\ w.ret = slash \o Join(NamesFromRoot(w.fdt[args.fd].node))
            /\ Resolve(w.ret) = w.fdt[args.fd].node
            /\ (w.fdt[args.fd].node = RootDir => w.ret = slash)
            /\ OpenFds(w) = {OpenedDir} \cup DOMAIN OpenedFiles

\* E was opened, renamed to b in A, and then recovered as /t/a/b
C20_Witness ==
    /\ (Done /\ (\E k \in 1..Len(w.log) : w.log[k][1] = "open")) /\ w.fdt[args.fd].node = "E" /\ renames = 1
    /\ w.ret = <<"/", "t", "/", "a", "/", "b">>

\* C21: when the platform has no method of its own, or its method gives no
\* path (as for a pipe or a socket, whose link text is not absolute),
\* recover_fd_path on an open descriptor that is not a directory (a regular
\* file, a pipe, a socket) fails with ENOTSUP, and has opened nothing.
C21_NotSupported ==
    (/\ Done /\ args.fd >= 0 /\ IsOpen(w, args.fd)
     /\ Kind[w.fdt[args.fd].node] # "dir"
     /\ (~args.plat \/ try_recover_fd_path(w, args.fd) = <<>>)) =>
        /\ w.errno = "ENOTSUP" /\ w.ret = <<>>
        /\ \A k \in 1..Len(w.log) : w.log[k][1] \notin {"open", "close"}
        /\ OpenFds(w) = {OpenedDir} \cup DOMAIN OpenedFiles
        /\ ~w.ebadf

\* the platform's method was asked about a pipe, gave no path, and the call
\* failed with ENOTSUP after the fstat
C21_Witness ==
    /\ Done /\ args.plat /\ IsOpen(w, args.fd)
    /\ Kind[w.fdt[args.fd].node] = "fifo"
    /\ w.errno = "ENOTSUP"
    /\ Len(w.log) = 2 /\ w.log[1][1] = "readlink" /\ w.log[2][1] = "fstat"

\* C22: recover_fd_path fails with EBADF for every negative descriptor, and
\* has then neither asked the platform's method nor made a system call.
C22_NegativeFd ==
    (Done /\ args.fd < 0) =>
        /\ w.errno = "EBADF" /\ w.ret = <<>>
        /\ w.log = <<>>

\* the call with AT_FDCWD, a negative number that names the working directory
\* elsewhere, ended with EBADF although the platform has a method
C22_Witness ==
    /\ Done /\ args.fd = AT_FDCWD /\ args.plat
    /\ w.errno = "EBADF" /\ w.log = <<>>

\* C23 as stated: if the platform's facility, the link of the descriptor in
\* /proc/self/fd, yields a path, recover_fd_path returns it with any
\* " (deleted)" suffix stripped.
C23_Original ==
    LET
        link == ProcLink(w.fdt[args.fd].node)
        Stripped(path) ==
            IF EndsWith(path, DeletedSuffix)
            THEN SubSeq(path, 1, Len(path) - Len(DeletedSuffix))
            ELSE path
    IN
        (Done /\ args.plat /\ args.fd >= 0 /\ IsOpen(w, args.fd) /\ StartsWith(link, slash))
            => (w.errno = "" /\ w.ret = Stripped(link))

\* C23: if the link of the descriptor in /proc/self/fd is an absolute path
\* that does not end in " (deleted)", recover_fd_path returns it unchanged
\* and makes no other system call; a link that ends in " (deleted)" is not
\* stripped but declined: the call goes on with the fstat and the reverse
\* walk, which for a removed directory ends in ENOENT.
C23_PlatformPath ==
    LET
        link == ProcLink(w.fdt[args.fd].node)
    IN
        (Done /\ args.plat /\ args.fd >= 0 /\ IsOpen(w, args.fd) /\ StartsWith(link, slash)) =>
            IF ~EndsWith(link, DeletedSuffix)
            THEN /\ w.errno = "" /\ w.ret = link
                 /\ w.log = << <<"readlink", "/proc/self/fd", args.fd>> >>
            ELSE /\ Len(w.log) >= 2 /\ w.log[2] = <<"fstat", args.fd>>
                 /\ w.errno = "ENOENT" /\ w.ret = <<>>

\* the path of a regular file, which the reverse walk could not give, was
\* returned from the link
C23_Witness ==
    /\ Done /\ args.plat /\ IsOpen(w, args.fd)
    /\ w.fdt[args.fd].node = "B"
    /\ w.errno = "" /\ w.ret = <<"/", "t", "/", "b">>
    /\ Len(w.log) = 1

\* C24 as stated: for every root R and path P for which open_beneath returns
\* a descriptor F to a directory, open_beneath beneath R on the path that
\* recover_fd_path returns for F yields a descriptor to the same file as F.
C24_Original ==
    (Done /\ args.first # NoFd) =>
        (Succeeded /\ w.fdt[w.ret].node = w.fdt[args.first].node)

\* C24: the path recover_fd_path returns for F is absolute from the
\* filesystem root, and open_beneath beneath R takes it as a path from R: the
\* second call opens what the path's names lead to from R, and fails with
\* ENOENT if there is no such file.  It is the file of F when R is the
\* filesystem root; beneath the root T, which holds no entry t, it is ENOENT.
C24_ReResolution ==
    LET
        RECURSIVE Walk(_, _)
        Walk(d, names) ==
            IF names = <<>> THEN d
            ELSE IF d = NoNode \/ Kind[d] # "dir" \/ Head(names) \notin Names THEN NoNode
            ELSE Walk(dirents[d][Head(names)], Tail(names))

        there == Walk(CallerNode(args.dir_fd), FilterNonEmpty(StrSplit(args.path, <<>>)))
    IN
        (Done /\ args.first # NoFd) =>
            /\ StartsWith(args.path, slash)
            /\ IF there = NoNode
               THEN w.errno = "ENOENT" /\ w.ret = NoFd
               ELSE Succeeded /\ w.fdt[w.ret].node = there /\ w.ret # args.first
            /\ CallerNode(args.dir_fd) = RootDir => there = w.fdt[args.first].node
            /\ CallerNode(args.dir_fd) = Root => there = NoNode

\* beneath the filesystem root, E was opened, recovered as /t/a/e by the
\* reverse walk and opened again
C24_Witness ==
    /\ Succeeded /\ args.first # NoFd /\ ~args.plat
    /\ args.dir_fd = RootFd
    /\ args.path = <<"/", "t", "/", "a", "/", "e">>
    /\ w.fdt[w.ret].node = "E" /\ w.fdt[args.first].node = "E"

C26_EscapePending ==
    /\ (w.pc \in {"loop", "symlink"} /\ w.saw_parent_elem) =>
          /\ ~w.remember_parents
          /\ w.parent_fds = <<>>
          /\ w.cur_fd # w.dir_fd
          /\ w.cur_fd \notin CallerFds
          /\ IsOpen(w, w.cur_fd)
          /\ \E k \in 1..Len(w.log) :
                w.log[k][1] = "open" /\ w.log[k][7] = "" /\ w.log[k][6] = w.cur_fd
    /\ w.pc = "symlink" => ~w.saw_parent_elem
    /\ Done => w.errno # "AssertionError"

\* the queue is drained with saw_parent_elem still set, the `..` having come
\* out of a symlink: the three assertions are about to be evaluated
C26_Witness ==
    /\ w.pc = "loop" /\ w.parts = <<>> /\ w.saw_parent_elem
    /\ w.found_symlinks >= 1
    /\ w.fdt[w.cur_fd].node # Root

C28_RootMarkerAssert ==
    [][(w.pc = "loop" /\ w.parts # <<>>) =>
          /\ \A k \in 2..Len(w.parts) : w.parts[k].part # slash
          /\ Head(w.parts).part = slash =>
                /\ ~w.saw_parent_elem
                /\ w' # w => w'.errno # "AssertionError"]_vars

\* a symlink with an absolute target was found right after a `..` below the
\* root, and the root marker of its target has been processed
C28_Witness ==
    /\ w.pc = "loop" /\ w.found_symlinks = 1 /\ w.cur_fd = w.dir_fd
    /\ ~w.saw_parent_elem
    /\ \E k \in 1..Len(w.log) :
          /\ w.log[k][1] = "readlink"
          /\ \E m \in 1..(k - 1) : w.log[m] = <<"checked", "">>
          /\ \A m \in (k + 1)..Len(w.log) : w.log[m][1] \notin {"open", "readlink"}
    /\ Len(w.parts) = 1

\* C29: at every dequeue, after any number of symlink expansions, of
\* intermediate or final items, with targets absolute or relative, with or
\* without trailing separators, every item of the queue but the last carries
\* DIR_OPEN_FLAGS, so the item taken carries other flags only if the queue is
\* then empty, and the assertion at the top of the loop never fails.
C29_FinalFlagsLast ==
    /\ w.pc = "loop" => \A k \in 1..(Len(w.parts) - 1) : w.parts[k].flags = DIR_OPEN_FLAGS
    /\ (w.pc = "loop" /\ w.pend.part # <<>> /\ w.pend.flags # DIR_OPEN_FLAGS) => w.parts = <<>>
    /\ Done => w.errno \notin {"AssertionError"}

\* the last item of the queue was taken after two symlink expansions, and it
\* carries O_DIRECTORY from the trailing separator of a target
C29_Witness ==
    /\ w.pc = "loop" /\ w.found_symlinks = MaxExpansions
    /\ w.pend.part # <<>> /\ w.parts = <<>>
    /\ ~EndsWith(args.path, slash)
    /\ w.pend.flags = args.flags \cup {O_NOCTTY, O_DIRECTORY}
    /\ w.pend.flags # DIR_OPEN_FLAGS

\* C30: _check_beneath returns normally if and only if walking up through `..`
\* from the cursor reaches the root's identity before a directory that is its
\* own parent; it raises EXDEV only when it does not; an error of fstat or of
\* the open of `..` is raised as it is, never as EXDEV; and on every outcome
\* the cursor is open and unchanged and every descriptor opened on the way is
\* closed.
C30_Verifier ==
    [][LET
           \* the outcome when no system call fails
           Plain == _check_beneath(w, w.cur_fd, NoFault)

           \* the system calls that the run made
           Calls == {k \in (Len(w.log) + 1)..Len(w'.log) : w'.log[k][1] \in {"fstat", "open"}}

           \* the run's last system call failed
           LastCallFailed ==
               \E k \in Calls :
                   /\ \A m \in Calls : m <= k
                   /\ w'.log[k][1] = "open" => w'.log[k][7] = w'.errno
       IN
           (w.pc = "loop" /\ w'.pc = "done") =>
               /\ Plain.errno = IF Below(w.fdt[w.cur_fd].node, w.dir_fd_stat) THEN "" ELSE "EXDEV"
               /\ w'.errno = "" => Below(w.fdt[w.cur_fd].node, w.dir_fd_stat)
               /\ w'.errno = "EXDEV" =>
                     /\ ~Below(w.fdt[w.cur_fd].node, w.dir_fd_stat)
                     /\ \A k \in Calls : w'.log[k][1] = "open" => w'.log[k][7] = ""
               /\ w'.errno \notin {"", "EXDEV"} => (w'.errno = "EIO" /\ LastCallFailed)
               /\ w'.log[Len(w'.log)] = <<"checked", w'.errno>>
               /\ w'.cur_fd = w.cur_fd /\ IsOpen(w', w.cur_fd)
               /\ w'.fdt = w.fdt
               /\ ~w'.ebadf]_vars

\* the cursor's directory was moved out of the root: the run opened `..` until
\* it got the same directory twice, raised EXDEV and left the cursor open
C30_Witness ==
    /\ Done /\ w.errno = "EXDEV" /\ renames = 1
    /\ w.dir_fd_stat = Root
    /\ IsOpen(w, w.cur_fd) /\ w.fdt[w.cur_fd].node = "E"
    /\ Cardinality(OpensOf(w, dotdot)) = 3
    /\ OpenFds(w) = {w.dir_fd, w.cur_fd}

\* C31: when the open of an ordinary name fails with an errno that a symlink
\* may have caused, nothing is raised before the readlink; when that readlink
\* finds a file that is not a symlink (EINVAL), the call fails with ENOTDIR if
\* the open had failed with ENOTDIR and with EAGAIN if it had failed with
\* ELOOP, EMLINK or EFTYPE; any other error of the open and any other error of
\* the readlink is the error of the call.
C31_NotASymlink ==
    [][LET
           \* the file the pending name leads to when the readlink is made
           Found == Lookup(BaseNode(w, w.cur_fd), w.pend.part)

           \* the opens of the name taken from the queue that the step made
           NameOpens ==
               {k \in (Len(w.log) + 1)..Len(w'.log) :
                   /\ w'.log[k][1] = "open"
                   /\ w'.log[k][3] = Head(w.parts).part}

           \* what the `except OSError as ex` block raises after a readlink that
           \* failed with EINVAL, the open having failed with ex
           Raised(ex) ==
               ReadLink([s |-> w, val |-> <<>>, errno |-> "EINVAL"],
                        [w.pend EXCEPT !.ex = ex], NoFault).errno
       IN
           /\ (w.pc = "symlink" /\ w' # w) =>
                 /\ Raised("ENOTDIR") = "ENOTDIR"
                 /\ \A ex \in {"ELOOP", "EMLINK", "EFTYPE"} : Raised(ex) = "EAGAIN"
                 /\ (Found \in Nodes /\ Kind[Found] # "lnk") =>
                       /\ w'.pc = "done" /\ w'.ret = NoFd
                       /\ w'.errno \in {Raised(w.pend.ex), "EIO"}
                 /\ Found = NoNode =>
                       /\ w'.pc = "done" /\ w'.ret = NoFd
                       /\ w'.errno \in {"ENOENT", "EIO"}
                 /\ w'.errno = "EAGAIN" => (w.pend.ex = "ELOOP" /\ renames > 0)
                 /\ SymlinkBranch(w, <<"readlink", 0>>).pc = "done"
                 /\ SymlinkBranch(w, <<"readlink", 0>>).errno = "EIO"
           /\ (w.pc = "loop" /\ w.parts # <<>> /\ Head(w.parts).part \notin {slash, dot, dotdot}) =>
                 \A k \in NameOpens :
                     /\ w'.log[k][7] \in SymlinkErrnos =>
                           (w'.pc = "symlink" /\ w'.pend.ex = w'.log[k][7] /\ w'.errno = "")
                     /\ w'.log[k][7] \notin SymlinkErrnos \cup {""} =>
                           (w'.pc = "done" /\ w'.errno = w'.log[k][7] /\ w'.ret = NoFd)]_vars

\* the open of a name failed with ELOOP, another process then put a regular
\* file in the symlink's place, and the call failed with EAGAIN
C31_Witness ==
    /\ Done /\ w.errno = "EAGAIN" /\ w.ret = NoFd
    /\ renames = 1
    /\ \E k \in 1..Len(w.log) :
          /\ w.log[k][1] = "open" /\ w.log[k][7] = "ELOOP"
          /\ k < Len(w.log) /\ w.log[k + 1][1] = "readlink"

\* C32: in a filesystem that does not change, every call of open_beneath ends,
\* by a return or by an error, for every path and also over the symlink to
\* itself: a loop iteration that does not end the call takes one item from the
\* queue and adds none, items are added only when a symlink is expanded, and
\* the symlinks expanded in one call are never more than max_symlinks.
C32_Terminates ==
    /\ [][/\ (w.pc = "loop" /\ w' # w) =>
                \/ w'.pc = "done"
                \/ /\ w'.pc \in {"loop", "symlink"}
                   /\ w'.parts = Tail(w.parts)
                   /\ w'.found_symlinks = w.found_symlinks
          /\ (w.pc = "symlink" /\ w' # w) =>
                \/ w'.pc = "done"
                \/ /\ w'.pc = "loop"
                   /\ w'.found_symlinks = w.found_symlinks + 1
                   /\ w'.found_symlinks <= max_symlinks
                   /\ Len(w'.parts) >= Len(w.parts)
                   /\ SubSeq(w'.parts, Len(w'.parts) - Len(w.parts) + 1, Len(w'.parts)) = w.parts]_vars
    /\ <>(w.pc = "done")

\* the walk of the symlink to itself expanded it max_symlinks times and ended
\* with ELOOP at the next one
C32_Witness ==
    /\ Done /\ w.errno = "ELOOP" /\ ~args.no_symlinks
    /\ w.found_symlinks = max_symlinks + 1
    /\ Cardinality({k \in 1..Len(w.log) : w.log[k][1] = "readlink"}) = max_symlinks + 1

\* C33: in the scan of the parent a name is selected only when its entry
\* could be looked at, is a directory, and has the device and the inode
\* number of the child, so the entry with the same inode number on another
\* device is never the name found; entries that cannot be looked at do not
\* end the scan, the child's name is still found behind them; and when no
\* entry that can be looked at matches, recover_fd_path fails with ENOENT.
C33_ScanSelects ==
    [][LET parent == up[w.fdt[w.sub_fd].node]
           Scans == {k \in (Len(w.log) + 1)..Len(w'.log) :
                        w'.log[k][1] = "scandir" /\ w'.log[k][4] = ""}
           Same(n) == /\ dirents[parent][n] # NoNode
                      /\ Kind[dirents[parent][n]] = "dir"
                      /\ st_dev[dirents[parent][n]] = st_dev[w.sub_stat]
                      /\ st_ino[dirents[parent][n]] = st_ino[w.sub_stat]
                      /\ dirents[parent][n] = w.sub_stat
           Found(n) == /\ w'.pc = "walk" /\ w'.errno = ""
                       /\ w'.built_path = (IF w.built_path = <<>> THEN n
                                           ELSE n \o slash \o w.built_path)
       IN  w.pc = "walk" =>
             \A k \in Scans :
                /\ w'.pc = "walk" => \E n \in Names \ w'.log[k][3] : Same(n) /\ Found(n)
                /\ \A m \in Names :
                      (/\ dirents[parent][m] # NoNode
                       /\ st_ino[dirents[parent][m]] = st_ino[w.sub_stat]
                       /\ st_dev[dirents[parent][m]] # st_dev[w.sub_stat]) => ~Found(m)
                /\ (\E n \in Names \ w'.log[k][3] : Same(n)) =>
                      \E n \in Names \ w'.log[k][3] : Same(n) /\ Found(n)
                /\ (~\E n \in Names \ w'.log[k][3] : Same(n)) =>
                      w'.pc = "done" /\ w'.errno = "ENOENT" /\ w'.ret = <<>>]_vars

\* the scan of T for the directory A could not look at the entry a: the entry
\* e, a directory with A's inode number on the other device, was looked at
\* and not taken, and the call failed with ENOENT
C33_Witness ==
    /\ w.pc = "done" /\ w.errno = "ENOENT"
    /\ w.sub_stat = "A" /\ dirents["T"][<<"a">>] = "A" /\ dirents["T"][<<"e">>] = "E"
    /\ st_ino["E"] = st_ino["A"] /\ st_dev["E"] # st_dev["A"]
    /\ \E k \in 1..Len(w.log) :
          /\ w.log[k][1] = "scandir" /\ w.log[k][3] = {<<"a">>} /\ w.log[k][4] = ""
          /\ w.fdt[OpenedDir].node = "A"

\* C34: recover_fd_path never closes the descriptor it was given, which stays
\* open on the same file; no descriptor is closed twice; while the reverse
\* walk runs the one descriptor it holds besides the caller's is sub_fd; and
\* when the call has ended, with a path or with any error, every descriptor
\* it opened was closed exactly once and the caller's descriptors are the
\* ones open.
C34_ClosesItsOwn ==
    LET Opens == {k \in 1..Len(w.log) : w.log[k][1] = "open" /\ w.log[k][7] = ""}
        Closes(k) ==
            {j \in (k + 1)..Len(w.log) :
                /\ w.log[j] = <<"close", w.log[k][6]>>
                /\ \A i \in Opens : ~(k < i /\ i < j /\ w.log[i][6] = w.log[k][6])}
        Given == {OpenedDir} \cup DOMAIN OpenedFiles
    IN  /\ ~w.ebadf
        /\ \A k \in 1..Len(w.log) : w.log[k][1] = "close" => w.log[k][2] # args.fd
        /\ w.pc \in {"walk", "done"} =>
              /\ IsOpen(w, args.fd)
              /\ \A k \in Opens : w.log[k][6] \notin Given /\ Cardinality(Closes(k)) <= 1
              /\ Cardinality({j \in 1..Len(w.log) : w.log[j][1] = "close"})
                    = Cardinality({k \in Opens : Closes(k) # {}})
        /\ w.pc = "walk" => OpenFds(w) = Given \cup {w.sub_fd}
        /\ w.pc = "done" =>
              /\ OpenFds(w) = Given
              /\ \A k \in Opens : Cardinality(Closes(k)) = 1

\* two levels up the scan itself failed: both parents that were opened are
\* closed and the caller's descriptor is open
C34_Witness ==
    /\ w.pc = "done" /\ w.errno = "EACCES"
    /\ Cardinality({k \in 1..Len(w.log) : w.log[k][1] = "open" /\ w.log[k][7] = ""}) = 2
    /\ Cardinality({k \in 1..Len(w.log) : w.log[k][1] = "close"}) = 2
    /\ IsOpen(w, args.fd)
====
